---- MODULE Spec2Model ----
(***************************************************************************)
(* PubMedFlo ingestion-to-retrieval pipeline: chunk store, embedding       *)
(* staleness tracking, FAISS index artifacts and metadata resolution.      *)
(*                                                                         *)
(* A normalized text is a sequence of tokens (the whitespace-delimited     *)
(* runs of chunker.py); the string it stands for is the tokens joined by   *)
(* single spaces.  Tables of the relational store are sets of rows.        *)
(***************************************************************************)
EXTENDS Integers, Sequences, FiniteSets, TLC

\* ------------------------------------------------------------------ bounds
MaxTokens == 2          \* longest document text, in tokens
MaxChunkId == 2         \* text_chunks.chunk_id values handed out by the serial
MaxTextLen == 4         \* longest text handed to MetadataStore.resolve, in characters
MaxBuilds == 2          \* build_index executions told apart in one behaviour
MaxLogs == 2            \* rows of query_logs

\* SHA-256 hex digests are 64 digits and the fingerprint keeps 16 of them; the
\* model keeps the proportions with shorter digests.
HexDigestLen == 4       \* hashlib.sha256(...).hexdigest()
ComputeHashLen == 2     \* _compute_hash: hexdigest()[:16]
SubstringForLen == 2    \* fetch_todo_chunks: substring(tc.content_hash FOR 16)

\* The scan window is 20000 characters; the model keeps a window in which two
\* titles can start a hundred characters apart.
MAX_TEXT_WINDOW == 111

Pmids == {1, 2}
Tokens == {"a", "bb"}
Models == {"M1", "M2"}
\* (chunk_size, overlap_ratio in percent) pairs of [input] in config.toml
ChunkConfigs == {<<2, 50>>}

NoFile == [missing |-> TRUE]

VARIABLES
    text_chunks,        \* table text_chunks
    chunk_embeddings,   \* table chunk_embeddings
    documents,          \* table documents
    next_chunk_id,      \* serial behind text_chunks.chunk_id
    pubmed_articles,    \* table pubmed_articles, by pmid
    query_logs,         \* tables query_logs and retrieves
    chunk_size,         \* config.input.chunk_size
    overlap_pct,        \* config.input.overlap_ratio, in percent
    embed_model,        \* config.embed.model
    embed_normalize,    \* config.embed.normalize
    index_file,         \* artifacts/index_flat.faiss
    ids_file,           \* artifacts/index_flat.ids.npy
    meta_file,          \* artifacts/index_flat.meta.json
    last_op,            \* the handler that ran last, its input and its outcome
    procs,              \* callers of search_index and build_index, mid-call
    tx,                 \* the connection of parse_directory.run, mid-batch
    lookup,             \* a MetadataStore, a text and what resolve made of it
    conns               \* database connections open side by side, mid-transaction

storeVars == <<text_chunks, chunk_embeddings, documents, next_chunk_id,
               pubmed_articles, query_logs>>
configVars == <<chunk_size, overlap_pct, embed_model, embed_normalize>>
artifactVars == <<index_file, ids_file, meta_file>>
auxVars == <<procs, tx, lookup, conns>>
vars == <<storeVars, configVars, artifactVars, last_op, auxVars>>

\* ---------------------------------------------------------------- helpers
Max(a, b) == IF a >= b THEN a ELSE b
Min(a, b) == IF a <= b THEN a ELSE b

SeqsUpTo(S, n) == UNION {[1..k -> S] : k \in 0..n}

Texts == SeqsUpTo(Tokens, MaxTokens)

\* The elements of a finite set of integers, ascending (ORDER BY on an integer key).
RECURSIVE SortedSeq(_)
SortedSeq(S) ==
    IF S = {} THEN <<>>
    ELSE LET m == CHOOSE x \in S : \A y \in S : x <= y
         IN <<m>> \o SortedSeq(S \ {m})

\* ------------------- binary floating point (IEEE 754 double), as Python has it
\* A natural number is its list of digits to the base 2^15, lowest first, the
\* highest digit not 0; the empty list is 0.
LimbBits == 15

LimbBase == 2 ^ LimbBits

RECURSIVE Limbs(_)
Limbs(n) == IF n = 0 THEN <<>> ELSE <<n % LimbBase>> \o Limbs(n \div LimbBase)

RECURSIVE LimbsToInt(_)
LimbsToInt(x) == IF x = <<>> THEN 0 ELSE x[1] + LimbBase * LimbsToInt(Tail(x))

LimbAt(x, i) == IF i <= Len(x) THEN x[i] ELSE 0

RECURSIVE TrimLimbs(_)
TrimLimbs(x) ==
    IF x = <<>> \/ x[Len(x)] # 0 THEN x ELSE TrimLimbs(SubSeq(x, 1, Len(x) - 1))

RECURSIVE AddLimbsFrom(_, _, _, _)
AddLimbsFrom(x, y, i, carry) ==
    IF i > Len(x) /\ i > Len(y) THEN Limbs(carry)
    ELSE LET sum == LimbAt(x, i) + LimbAt(y, i) + carry
         IN <<sum % LimbBase>> \o AddLimbsFrom(x, y, i + 1, sum \div LimbBase)

AddLimbs(x, y) == AddLimbsFrom(x, y, 1, 0)

\* x - y for x >= y
RECURSIVE SubLimbsFrom(_, _, _, _)
SubLimbsFrom(x, y, i, borrow) ==
    IF i > Len(x) THEN <<>>
    ELSE LET diff == x[i] - LimbAt(y, i) - borrow
         IN <<diff % LimbBase>> \o SubLimbsFrom(x, y, i + 1, IF diff < 0 THEN 1 ELSE 0)

SubLimbs(x, y) == TrimLimbs(SubLimbsFrom(x, y, 1, 0))

\* x * n for 0 <= n < 2^15
RECURSIVE MulLimbsFrom(_, _, _, _)
MulLimbsFrom(x, n, i, carry) ==
    IF i > Len(x) THEN Limbs(carry)
    ELSE LET prod == x[i] * n + carry
         IN <<prod % LimbBase>> \o MulLimbsFrom(x, n, i + 1, prod \div LimbBase)

MulLimbs(x, n) == TrimLimbs(MulLimbsFrom(x, n, 1, 0))

\* Long division of digits 1..i of x by d, 0 < d <= 2^15, from the top digit
\* down; r is the remainder and q the quotient of the digits above.
RECURSIVE DivLimbsFrom(_, _, _, _, _)
DivLimbsFrom(x, d, i, r, q) ==
    IF i = 0 THEN [q |-> TrimLimbs(q), r |-> r]
    ELSE LET top == r * LimbBase + x[i]
         IN DivLimbsFrom(x, d, i - 1, top % d, <<top \div d>> \o q)

DivLimbs(x, d) == DivLimbsFrom(x, d, Len(x), 0, <<>>)

\* x < y for x and y of the same length, looking at digits 1..i from the top
RECURSIVE LessLimbsFrom(_, _, _)
LessLimbsFrom(x, y, i) ==
    IF i = 0 THEN FALSE
    ELSE IF x[i] # y[i] THEN x[i] < y[i]
    ELSE LessLimbsFrom(x, y, i - 1)

LessLimbs(x, y) ==
    \/ Len(x) < Len(y)
    \/ Len(x) = Len(y) /\ LessLimbsFrom(x, y, Len(x))

\* The number of bits of x
BitLength(x) ==
    IF x = <<>> THEN 0
    ELSE LimbBits * (Len(x) - 1)
         + (CHOOSE k \in 1..LimbBits : 2 ^ (k - 1) <= x[Len(x)] /\ x[Len(x)] < 2 ^ k)

\* x * 2^k
ShiftLeft(x, k) ==
    IF x = <<>> THEN <<>>
    ELSE [i \in 1..(k \div LimbBits) |-> 0] \o MulLimbs(x, 2 ^ (k % LimbBits))

\* x \div 2^k, and whether a bit that is 1 was dropped
ShiftRight(x, k) ==
    LET whole == Min(k \div LimbBits, Len(x))
        dv == DivLimbs(SubSeq(x, whole + 1, Len(x)), 2 ^ (k % LimbBits))
    IN [q |-> dv.q, sticky |-> dv.r # 0 \/ \E i \in 1..whole : x[i] # 0]

MantissaBits == 53

\* A double is (-1)^neg * man * 2^exp with man of at most MantissaBits bits.
\* Rounding is to nearest, ties to even.
RoundFloat(neg, man, exp) ==
    IF BitLength(man) <= MantissaBits THEN [neg |-> neg, man |-> man, exp |-> exp]
    ELSE LET drop == BitLength(man) - MantissaBits
             above == ShiftRight(man, drop - 1)
             half == above.q[1] % 2 = 1
             kept == DivLimbs(above.q, 2).q
             up == half /\ (above.sticky \/ kept[1] % 2 = 1)
         IN [neg |-> neg,
             man |-> IF up THEN AddLimbs(kept, <<1>>) ELSE kept,
             exp |-> exp + drop]

\* float(n) for an integer n >= 0
FloatOfInt(n) == [neg |-> FALSE, man |-> Limbs(n), exp |-> 0]

\* The double a decimal literal p/q is read as (p >= 0, 0 < q <= 2^15): the
\* quotient to 64 binary places and one more bit for what is left, rounded.
FloatOfRatio(p, q) ==
    LET dv == DivLimbs(ShiftLeft(Limbs(p), 64), q)
    IN RoundFloat(FALSE,
                  AddLimbs(MulLimbs(dv.q, 2), IF dv.r = 0 THEN <<>> ELSE <<1>>),
                  0 - 65)

\* int(f) for f >= 0
FloatToInt(f) ==
    IF f.exp >= 0 THEN LimbsToInt(ShiftLeft(f.man, f.exp))
    ELSE LimbsToInt(ShiftRight(f.man, 0 - f.exp).q)

\* penalty: float = 0.01
Penalty == FloatOfRatio(1, 100)

\* f * n for f >= 0 and an integer 0 <= n < 2^15
FloatMulInt(f, n) == RoundFloat(FALSE, MulLimbs(f.man, n), f.exp)

\* x - y for x >= 0 and y >= 0
FloatSub(x, y) ==
    LET e == Min(x.exp, y.exp)
        xm == ShiftLeft(x.man, x.exp - e)
        ym == ShiftLeft(y.man, y.exp - e)
    IN IF LessLimbs(xm, ym) THEN RoundFloat(TRUE, SubLimbs(ym, xm), e)
       ELSE RoundFloat(FALSE, SubLimbs(xm, ym), e)

\* x > y
FloatGreater(x, y) ==
    LET e == Min(x.exp, y.exp)
        xm == ShiftLeft(x.man, x.exp - e)
        ym == ShiftLeft(y.man, y.exp - e)
    IN IF x.neg /\ y.neg THEN LessLimbs(xm, ym)
       ELSE IF x.neg THEN FALSE
       ELSE IF y.neg THEN xm # <<>> \/ ym # <<>>
       ELSE LessLimbs(ym, xm)

\* ---------------------------------------------------------------- chunker
TokenLen(t) == IF t = "a" THEN 1 ELSE 2

TokenCode(t) == IF t = "a" THEN 1 ELSE 2

\* re.finditer(r"\S+", text): token i (1-based) of the joined string starts at
\* the 0-based character offset below and ends TokenLen further on.
RECURSIVE TokenStart(_, _)
TokenStart(text, i) ==
    IF i = 1 THEN 0 ELSE TokenStart(text, i - 1) + TokenLen(text[i - 1]) + 1

TokenEnd(text, i) == TokenStart(text, i) + TokenLen(text[i])

\* hashlib.sha256(s.encode("utf-8")).hexdigest(): a digest of HexDigestLen
\* digits; distinct chunk texts of the model get digests that differ within the
\* first ComputeHashLen digits (no collision of the truncated digest).
RECURSIVE DigitSum(_)
DigitSum(w) == IF w = <<>> THEN 0 ELSE TokenCode(Head(w)) + DigitSum(Tail(w))

Sha256Hex(w) ==
    [i \in 1..HexDigestLen |->
        IF i <= 2 THEN (IF i <= Len(w) THEN TokenCode(w[i]) ELSE 0)
        ELSE IF i = 3 THEN Len(w) % 16
        ELSE (DigitSum(w) + i) % 16]

\* step = max(1, int(chunk_size * (1 - overlap_ratio))), overlap_ratio being
\* the double that pct hundredths are read as.
Step(size, pct) ==
    Max(1, FloatToInt(FloatMulInt(FloatSub(FloatOfInt(1), FloatOfRatio(pct, 100)), size)))

\* end_offset taken from the token after the window's first, whatever the
\* window holds.
BuildChunkEndAtSecond(pmid, text, size, start_index, chunk_idx) ==
    LET last == Min(start_index + size - 1, Len(text))
        window == SubSeq(text, start_index, last)
    IN [pmid |-> pmid,
        chunk_index |-> chunk_idx,
        text |-> window,
        start_offset |-> TokenStart(text, start_index),
        end_offset |-> TokenEnd(text, Min(start_index + 1, Len(text))),
        content_hash |-> Sha256Hex(window)]

\* build_chunk: the window of up to chunk_size tokens from start_index, the
\* span from its first token to its last, and the digest of its text.
BuildChunk(pmid, text, size, start_index, chunk_idx) ==
    LET last == Min(start_index + size - 1, Len(text))
        window == SubSeq(text, start_index, last)
    IN [pmid |-> pmid,
        chunk_index |-> chunk_idx,
        text |-> window,
        start_offset |-> TokenStart(text, start_index),
        end_offset |-> TokenEnd(text, last),
        content_hash |-> Sha256Hex(window)]

\* The configurations chunk_text is called with.
ChunkerConfigs == ChunkConfigs \cup {<<1, 0>>, <<2, 0>>, <<3, 34>>, <<10, 80>>}

\* step for each of them, worked out once
Steps == [cfg \in ChunkerConfigs |-> Step(cfg[1], cfg[2])]

\* Windows that start one token further apart than step.
ChunkTextWide(pmid, text, size, pct) ==
    LET step == Steps[<<size, pct>>] + 1
        n == IF Len(text) = 0 THEN 0 ELSE ((Len(text) - 1) \div step) + 1
    IN [k \in 1..n |-> BuildChunk(pmid, text, size, (k - 1) * step + 1, k - 1)]

\* chunk_text: one chunk per start index 0, step, 2*step, ... below len(tokens).
ChunkText(pmid, text, size, pct) ==
    LET step == Steps[<<size, pct>>]
        n == IF Len(text) = 0 THEN 0 ELSE ((Len(text) - 1) \div step) + 1
    IN [k \in 1..n |-> BuildChunk(pmid, text, size, (k - 1) * step + 1, k - 1)]

\* ------------------------------------------------------------ chunk store
ChunkRow(chunk, id) ==
    [chunk_id |-> id,
     pmid |-> chunk.pmid,
     chunk_index |-> chunk.chunk_index,
     chunk_text |-> chunk.text,
     start_offset |-> chunk.start_offset,
     end_offset |-> chunk.end_offset,
     content_hash |-> chunk.content_hash]

\* The chunk rows of one article.
RowsOf(tc, pmid) == {r \in tc : r.pmid = pmid}

\* Foreign keys of the schema: rows of chunk_embeddings go with their chunk.
CascadeEmbeddings(ce, tc) ==
    {e \in ce : \E r \in tc : r.chunk_id = e.chunk_id}

\* The conflicting row deleted and inserted anew, under a fresh serial value.
UpsertOneChunkReinsert(st, chunk) ==
    LET hit == {r \in st.tc : r.pmid = chunk.pmid /\ r.chunk_index = chunk.chunk_index}
    IN [tc |-> (st.tc \ hit) \cup {ChunkRow(chunk, st.nid)}, nid |-> st.nid + 1]

\* The conflict taken on chunk_index alone: a row of any article at that
\* index is the one updated.
UpsertOneChunkByIndex(st, chunk) ==
    LET hit == {r \in st.tc : r.chunk_index = chunk.chunk_index}
    IN IF hit = {}
       THEN [tc |-> st.tc \cup {ChunkRow(chunk, st.nid)}, nid |-> st.nid + 1]
       ELSE LET old == CHOOSE r \in hit : TRUE
            IN IF old.content_hash # chunk.content_hash
               THEN [tc |-> (st.tc \ {old}) \cup {ChunkRow(chunk, old.chunk_id)},
                     nid |-> st.nid]
               ELSE st

\* One row of executemany: INSERT ... ON CONFLICT (pmid, chunk_index) DO UPDATE
\* ... WHERE text_chunks.content_hash IS DISTINCT FROM EXCLUDED.content_hash.
\* st = [tc |-> rows, nid |-> next serial value].
UpsertOneChunk(st, chunk) ==
    LET hit == {r \in st.tc : r.pmid = chunk.pmid /\ r.chunk_index = chunk.chunk_index}
    IN IF hit = {}
       THEN [tc |-> st.tc \cup {ChunkRow(chunk, st.nid)}, nid |-> st.nid + 1]
       ELSE LET old == CHOOSE r \in hit : TRUE
            IN IF old.content_hash # chunk.content_hash
               THEN [tc |-> (st.tc \ {old}) \cup {ChunkRow(chunk, old.chunk_id)},
                     nid |-> st.nid]
               ELSE st

RECURSIVE UpsertRows(_, _)
UpsertRows(st, chunks) ==
    IF chunks = <<>> THEN st
    ELSE UpsertRows(UpsertOneChunk(st, Head(chunks)), Tail(chunks))

\* The set difference taken the wrong way round: the indices just written
\* are the ones deleted.
DeleteStaleNew(tc, pmid, existing_indices, new_indices) ==
    LET stale_indices == new_indices \ existing_indices
    IN {r \in tc : ~(r.pmid = pmid /\ r.chunk_index \in stale_indices)}

\* DELETE FROM text_chunks WHERE pmid = %s AND chunk_index = ANY(stale_indices)
DeleteStale(tc, pmid, existing_indices, new_indices) ==
    LET stale_indices == existing_indices \ new_indices
    IN {r \in tc : ~(r.pmid = pmid /\ r.chunk_index \in stale_indices)}

\* upsert_chunks on the chunk table; chunks is a non-empty list of one pmid.
UpsertChunks(tc, nid, chunks) ==
    LET pmid == chunks[1].pmid
        existing_indices == {r.chunk_index : r \in {x \in tc : x.pmid = pmid}}
        new_indices == {chunks[i].chunk_index : i \in DOMAIN chunks}
        st == UpsertRows([tc |-> tc, nid |-> nid], chunks)
    IN [tc |-> DeleteStale(st.tc, pmid, existing_indices, new_indices),
        nid |-> st.nid]

\* How many serial values upsert_chunks needs for rows it inserts.
NewRowCount(tc, chunks) ==
    Cardinality({i \in DOMAIN chunks :
        ~\E r \in tc : r.pmid = chunks[i].pmid /\ r.chunk_index = chunks[i].chunk_index})

\* ensure_pubmed_document_entry: insert the row unprocessed, or keep the one
\* that is there.
UploadMetadata(articles, pmids) == articles \cup pmids

\* users.user_id of the curators and admins; added_by is NULL in a row nobody
\* owns.
Users == {1, 2}

NoUser == 0

\* An upsert whose DO UPDATE also writes the inserted processed and added_by.
EnsureDocumentEntryOverwriting(docs, pmid) ==
    {d \in docs : d.pmid # pmid}
        \cup {[doc_id |-> pmid, pmid |-> pmid, processed |-> FALSE, added_by |-> NoUser]}

\* INSERT INTO documents (..., processed, added_by, pmid) VALUES (..., FALSE,
\* NULL, pmid) ON CONFLICT (pmid) DO UPDATE of title, type and source_url.
\* The three are what the article's metadata makes them, so that the row in
\* conflict has nothing to update.
\* The serial behind doc_id is not followed: the row of an article is numbered
\* as the article.
EnsureDocumentEntry(docs, pmid) ==
    IF \E d \in docs : d.pmid = pmid THEN docs
    ELSE docs \cup {[doc_id |-> pmid, pmid |-> pmid, processed |-> FALSE,
                     added_by |-> NoUser]}

\* UPDATE documents SET processed = TRUE WHERE pmid = %s
MarkProcessed(docs, pmid) ==
    {IF d.pmid = pmid THEN [d EXCEPT !.processed = TRUE] ELSE d : d \in docs}

\* ------------------------------------------------------- embedding stage
ComputeHash(w) == SubSeq(Sha256Hex(w), 1, ComputeHashLen)

\* The stored fingerprint compared with one digit more than it holds.
SubstringForLong(hash) == SubSeq(hash, 1, SubstringForLen + 1)

SubstringFor(hash) == SubSeq(hash, 1, SubstringForLen)

EmbeddingDim(model) == IF model = "M1" THEN 2 ELSE 3

\* SentenceTransformer(model).encode(text, normalize_embeddings=normalize)
Encode(model, w, normalize) == [model |-> model, text |-> w, unit |-> normalize]

\* The LEFT JOIN of fetch_todo_chunks: each chunk with its embedding rows of
\* the model, or with NULL when it has none.
Null == [null |-> TRUE]

LeftJoin(tc, ce, model_name) ==
    {<<c, e>> \in tc \X ce : c.chunk_id = e.chunk_id /\ e.model_name = model_name}
    \cup {<<c, Null>> : c \in {x \in tc :
            ~\E e \in ce : x.chunk_id = e.chunk_id /\ e.model_name = model_name}}

\* Only the chunks without an embedding row.
TodoFilterNullOnly(pair) == pair[2] = Null

TodoFilter(pair) ==
    \/ pair[2] = Null
    \/ pair[2].text_hash # SubstringFor(pair[1].content_hash)

\* ORDER BY tc.pmid, tc.chunk_id over the joined rows that pass the filter.
RECURSIVE OrderRows(_)
OrderRows(pairs) ==
    IF pairs = {} THEN <<>>
    ELSE LET p == CHOOSE x \in pairs : \A y \in pairs :
                    \/ x[1].pmid < y[1].pmid
                    \/ (x[1].pmid = y[1].pmid /\ x[1].chunk_id <= y[1].chunk_id)
         IN <<[chunk_id |-> p[1].chunk_id, pmid |-> p[1].pmid, text |-> p[1].chunk_text]>>
            \o OrderRows(pairs \ {p})

FetchTodoChunks(tc, ce, model_name) ==
    OrderRows({p \in LeftJoin(tc, ce, model_name) : TodoFilter(p)})

\* The rows of other models left where they are.
DeleteEmbeddingsKeeping(ce, current_model) == ce

\* DELETE FROM chunk_embeddings WHERE model_name <> current_model, when some
\* stored model differs.
DeleteEmbeddings(ce, current_model) ==
    LET existing_models == {e.model_name : e \in ce}
    IN IF existing_models # {} /\ \E v \in existing_models : v # current_model
       THEN {e \in ce : e.model_name = current_model}
       ELSE ce

\* INSERT ... ON CONFLICT (chunk_id, model_name) DO UPDATE, one row per
\* fetched chunk, the fingerprint taken from the fetched text.
RECURSIVE InsertEmbeddings(_, _, _, _)
InsertEmbeddings(ce, rows, model_name, normalize) ==
    IF rows = <<>> THEN ce
    ELSE LET row == Head(rows)
             new == [chunk_id |-> row.chunk_id,
                     pmid |-> row.pmid,
                     model_name |-> model_name,
                     embedding_dim |-> EmbeddingDim(model_name),
                     embedding |-> Encode(model_name, row.text, normalize),
                     text_hash |-> ComputeHash(row.text)]
             kept == {e \in ce : ~(e.chunk_id = row.chunk_id /\ e.model_name = model_name)}
         IN InsertEmbeddings(kept \cup {new}, Tail(rows), model_name, normalize)

\* embed_chunks.run on the embedding table.
EmbedRun(tc, ce, model, normalize) ==
    LET purged == DeleteEmbeddings(ce, model)
        rows_to_embed == FetchTodoChunks(tc, purged, model)
    IN IF rows_to_embed = <<>> THEN purged
       ELSE InsertEmbeddings(purged, rows_to_embed, model, normalize)

\* ------------------------------------------------------------ index files
\* _fetch_embeddings: SELECT chunk_id, embedding ... WHERE model_name = %s
\* ORDER BY chunk_id.
FetchEmbeddings(ce, model_name) ==
    LET rows == {e \in ce : e.model_name = model_name}
        order == SortedSeq({e.chunk_id : e \in rows})
    IN [i \in DOMAIN order |->
          LET e == CHOOSE x \in rows : x.chunk_id = order[i]
          IN [chunk_id |-> e.chunk_id, embedding |-> e.embedding]]

\* faiss.normalize_L2
NormalizeL2(v) == [v EXCEPT !.unit = TRUE]

\* index.add(embeddings); faiss.write_index.  build tells the builds apart.
IndexFileOf(fetched, normalize, build) ==
    [missing |-> FALSE,
     kind |-> IF normalize THEN "IndexFlatIP" ELSE "IndexFlatL2",
     vectors |-> [i \in DOMAIN fetched |->
                    IF normalize THEN NormalizeL2(fetched[i].embedding)
                    ELSE fetched[i].embedding],
     build |-> build]

\* The id array written last id first.
IdsFileOfReversed(fetched, build) ==
    [missing |-> FALSE,
     ids |-> [i \in DOMAIN fetched |-> fetched[Len(fetched) + 1 - i].chunk_id],
     build |-> build]

\* np.save(ids_path, chunk_ids)
IdsFileOf(fetched, build) ==
    [missing |-> FALSE,
     ids |-> [i \in DOMAIN fetched |-> fetched[i].chunk_id],
     build |-> build]

\* meta_path.write_text(json.dumps(meta))
MetaFileOf(fetched, model_name, normalize, build) ==
    [missing |-> FALSE,
     model_name |-> model_name,
     embedding_dim |-> EmbeddingDim(fetched[1].embedding.model),
     chunk_count |-> Len(fetched),
     metric |-> IF normalize THEN "cosine" ELSE "euclidean",
     normalized |-> normalize,
     build |-> build]

\* build_index run to completion on the artifact set art = [index, ids, meta];
\* failed when _fetch_embeddings raises for want of rows.
BuildIndex(ce, art, model_name, normalize, build) ==
    LET fetched == FetchEmbeddings(ce, model_name)
    IN IF fetched = <<>>
       THEN [art EXCEPT !.failed = TRUE]
       ELSE [index |-> IndexFileOf(fetched, normalize, build),
             ids |-> IdsFileOf(fetched, build),
             meta |-> MetaFileOf(fetched, model_name, normalize, build),
             rebuilt |-> TRUE,
             failed |-> FALSE]

\* The decision without the metric comparison.
NeedsRebuildModelOnly(index, ids, meta, model_name, normalize) ==
    LET files_missing == index.missing \/ ids.missing \/ meta.missing
    IN IF files_missing THEN TRUE
       ELSE IF meta.model_name # model_name THEN TRUE
       ELSE FALSE

\* The needs_rebuild decision of ensure_index_build.
NeedsRebuild(index, ids, meta, model_name, normalize) ==
    LET files_missing == index.missing \/ ids.missing \/ meta.missing
        current_metric == IF normalize THEN "cosine" ELSE "euclidean"
    IN IF files_missing THEN TRUE
       ELSE IF meta.model_name # model_name THEN TRUE
       ELSE IF meta.metric # current_metric THEN TRUE
       ELSE FALSE

\* ensure_index_build run to completion.
EnsureIndexBuild(ce, index, ids, meta, model_name, normalize, build) ==
    LET art == [index |-> index, ids |-> ids, meta |-> meta,
                rebuilt |-> FALSE, failed |-> FALSE]
    IN IF NeedsRebuild(index, ids, meta, model_name, normalize)
       THEN BuildIndex(ce, [art EXCEPT !.rebuilt = TRUE], model_name, normalize, build)
       ELSE art

\* --------------------------------------------------------------- retriever
\* index.search(query_vec, n): the rows of the n vectors nearest the query,
\* nearest first, and -1 where the index has fewer than n.  ranking lists the
\* row numbers (1-based) in the order of their distance from the query.
FaissSearch(index, ranking, n) ==
    LET order == SelectSeq(ranking, LAMBDA r : r <= Len(index.vectors))
    IN [j \in 1..n |-> IF j <= Len(order) THEN order[j] - 1 ELSE -1]

\* The scores index.search returns beside the rows: for a row, its place in
\* the ranking (what the distance of its vector from the query comes to), and
\* 0 beside a -1.
FaissScores(index, ranking, n) ==
    LET rows == FaissSearch(index, ranking, n)
    IN [j \in 1..n |->
          IF rows[j] = -1 THEN 0
          ELSE CHOOSE place \in DOMAIN ranking : ranking[place] = rows[j] + 1]

\* chunk_ids[i] of a NumPy array: a negative i counts from the end, an i out
\* of range raises IndexError.
InRange(chunk_ids, i) == -Len(chunk_ids) <= i /\ i < Len(chunk_ids)

ArrayAt(chunk_ids, i) == IF i < 0 THEN chunk_ids[Len(chunk_ids) + i + 1] ELSE chunk_ids[i + 1]

\* _fetch_chunk_metadata: a dict by chunk id of the rows text_chunks JOIN
\* documents has for chunk_ids.
FetchChunkMetadata(tc, docs, chunk_ids) ==
    LET rows == {<<r, d>> \in tc \X docs :
                    /\ d.pmid = r.pmid
                    /\ \E i \in DOMAIN chunk_ids : chunk_ids[i] = r.chunk_id}
    IN [id \in {x[1].chunk_id : x \in rows} |->
          LET x == CHOOSE y \in rows : y[1].chunk_id = id
          IN [chunk_text |-> x[1].chunk_text, pmid |-> x[1].pmid, doc_id |-> x[2].doc_id]]

\* generate_answer(query_text, ordered_results, answer_model): a text or None.
GenerateAnswer(generated) == generated

\* The whole of k, however small the index.
RequestedUnclamped(k, chunk_ids) == k

\* min(k, len(chunk_ids))
Requested(k, chunk_ids) == Min(k, Len(chunk_ids))

Answers == {Null, [null |-> FALSE, text |-> "answer"]}

\* query_id = None; the serial of query_logs starts at 1.
NoQueryId == 0

\* An INSERT INTO retrieves that knows no conflict.
InsertRetrievePlain(rows, doc_id) == Append(rows, doc_id)

\* INSERT INTO retrieves (query_id, doc_id) ... ON CONFLICT DO NOTHING, on the
\* rows of one query: a document the query has a row for is left as it is.
InsertRetrieve(rows, doc_id) ==
    IF \E i \in DOMAIN rows : rows[i] = doc_id THEN rows ELSE Append(rows, doc_id)

\* for result in results: the INSERT for results j, j + 1, ...
RECURSIVE InsertRetrieves(_, _, _)
InsertRetrieves(rows, ordered_results, j) ==
    IF j > Len(ordered_results) THEN rows
    ELSE InsertRetrieves(InsertRetrieve(rows, ordered_results[j].doc_id),
                         ordered_results, j + 1)

\* Two rows of query_logs for one query.
LogQueryTwice(logs, ordered_results, response_text) ==
    LET row(id) == [query_id |-> id, response_text |-> response_text,
                    doc_ids |-> InsertRetrieves(<<>>, ordered_results, 1)]
    IN logs \o <<row(Len(logs) + 1), row(Len(logs) + 2)>>

\* A log that stores the empty string where the answer is None.
LogQueryEmptyText(logs, ordered_results, response_text) ==
    Append(logs, [query_id |-> Len(logs) + 1,
                  response_text |-> IF response_text = Null
                                      THEN [null |-> FALSE, text |-> ""]
                                      ELSE response_text,
                  doc_ids |-> InsertRetrieves(<<>>, ordered_results, 1)])

\* _log_query: one row of query_logs with the next query_id, and a row of
\* retrieves for each document among the results (ON CONFLICT DO NOTHING).
LogQuery(logs, ordered_results, response_text) ==
    Append(logs, [query_id |-> Len(logs) + 1,
                  response_text |-> response_text,
                  doc_ids |-> InsertRetrieves(<<>>, ordered_results, 1)])

\* The scores handed out by place among the results kept, not by row.
OrderedResultsByPlace(retrieved_ids, scores, metadata) ==
    LET found == SelectSeq(retrieved_ids, LAMBDA id : id \in DOMAIN metadata)
    IN [j \in DOMAIN found |->
          [chunk_id |-> found[j], score |-> scores[j],
           chunk_text |-> metadata[found[j]].chunk_text,
           pmid |-> metadata[found[j]].pmid,
           doc_id |-> metadata[found[j]].doc_id]]

\* A result for every returned row, with nothing to show for a chunk id the
\* metadata does not have.
OrderedResultsKeepingMissing(retrieved_ids, scores, metadata) ==
    [j \in DOMAIN retrieved_ids |->
        IF retrieved_ids[j] \in DOMAIN metadata
        THEN [chunk_id |-> retrieved_ids[j], score |-> scores[j],
              chunk_text |-> metadata[retrieved_ids[j]].chunk_text,
              pmid |-> metadata[retrieved_ids[j]].pmid,
              doc_id |-> metadata[retrieved_ids[j]].doc_id]
        ELSE [chunk_id |-> retrieved_ids[j], score |-> scores[j],
              chunk_text |-> <<>>, pmid |-> 0, doc_id |-> 0]]

\* for chunk_id, score in zip(retrieved_ids, scores[0]): a result for every
\* chunk id the metadata has, in the order of the rows.
OrderedResults(retrieved_ids, scores, metadata) ==
    LET zipped == [j \in DOMAIN retrieved_ids |->
                     [chunk_id |-> retrieved_ids[j], score |-> scores[j]]]
        kept == SelectSeq(zipped, LAMBDA z : z.chunk_id \in DOMAIN metadata)
    IN [j \in DOMAIN kept |->
          [chunk_id |-> kept[j].chunk_id, score |-> kept[j].score,
           chunk_text |-> metadata[kept[j].chunk_id].chunk_text,
           pmid |-> metadata[kept[j].chunk_id].pmid,
           doc_id |-> metadata[kept[j].chunk_id].doc_id]]

\* search_index from index.search on.
RunQuery(chunk_ids, index, tc, docs, logs, k, answer_model, generated, ranking) ==
    LET requested == Requested(k, chunk_ids)
        indices == FaissSearch(index, ranking, requested)
        scores == FaissScores(index, ranking, requested)
        raised == [requested |-> requested, ordered_results |-> <<>>, answer |-> Null,
                   query_id |-> NoQueryId, query_logs |-> logs, error |-> "IndexError",
                   indices |-> indices, scores |-> scores]
    IN IF \E j \in DOMAIN indices : ~InRange(chunk_ids, indices[j])
       THEN raised
       ELSE LET retrieved_ids == [j \in DOMAIN indices |-> ArrayAt(chunk_ids, indices[j])]
                metadata == FetchChunkMetadata(tc, docs, retrieved_ids)
                ordered_results == OrderedResults(retrieved_ids, scores, metadata)
                answer == IF answer_model THEN GenerateAnswer(generated) ELSE Null
            IN IF ordered_results # <<>>
               THEN LET logged == LogQuery(logs, ordered_results, answer)
                    IN [requested |-> requested, ordered_results |-> ordered_results,
                        answer |-> answer, query_id |-> logged[Len(logs) + 1].query_id,
                        query_logs |-> logged, error |-> "none",
                        indices |-> indices, scores |-> scores]
               ELSE [requested |-> requested, ordered_results |-> ordered_results,
                     answer |-> answer, query_id |-> NoQueryId, query_logs |-> logs,
                     error |-> "none", indices |-> indices, scores |-> scores]

\* ------------------------------------------------- handlers, run in turn
\* What a handler leaves behind for the next observer: its input, whether it
\* raised, and the counts it logs (cur.rowcount and the stale rows of
\* upsert_chunks, the rows delete_embeddings removed).
NoOp ==
    [op |-> "init", pmid |-> 0, text |-> <<>>, rebuilt |-> FALSE, failed |-> FALSE,
     ids |-> <<>>, affected |-> 0, removed |-> 0, purged |-> 0,
     args |-> <<>>, out |-> <<>>, error |-> "none",
     requested |-> 0, answer |-> Null, query_id |-> NoQueryId,
     indices |-> <<>>, scores |-> <<>>, citations |-> <<>>]

Op(op, pmid, text, rebuilt, failed, ids) ==
    [NoOp EXCEPT !.op = op, !.pmid = pmid, !.text = text,
                 !.rebuilt = rebuilt, !.failed = failed, !.ids = ids]

\* cur.rowcount after executemany: the rows inserted or updated.
Affected(tc, chunks) ==
    Cardinality({i \in DOMAIN chunks :
        \A r \in tc : (r.pmid = chunks[i].pmid /\ r.chunk_index = chunks[i].chunk_index)
                          => r.content_hash # chunks[i].content_hash})

\* len(stale_indices)
Removed(tc, chunks) ==
    Cardinality({r.chunk_index : r \in {x \in tc : x.pmid = chunks[1].pmid}}
                \ {chunks[i].chunk_index : i \in DOMAIN chunks})

\* Two callers at a time: request threads of the API, or the API and a CLI run.
Procs == {1, 2}

\* model and normalize are [embed] of the configuration the caller runs with.
IdleProc ==
    [pc |-> "idle", caller |-> "none", fetched |-> <<>>, build |-> 0,
     meta_build |-> 0, chunk_ids |-> NoFile, index |-> NoFile,
     model |-> "none", normalize |-> FALSE]

IdleProcs == [p \in Procs |-> IdleProc]
\* No connection open; what the last run left to be seen of its document.
IdleTx ==
    [pc |-> "closed", pmid |-> 0, text |-> <<>>, pos |-> 0, existing_indices |-> {},
     status |-> "idle", failed |-> FALSE, base |-> <<>>,
     before |-> {}, was_processed |-> FALSE,
     files |-> <<>>, queue |-> <<>>, attempted |-> {}, failed_docs |-> {}]

\* No connection open.  add holds the rows of text_chunks the open transaction
\* has written and del the committed rows it has deleted or replaced;
\* doc_add and doc_del do the same for documents, art_add for pubmed_articles.
IdleConn ==
    [pc |-> "closed", caller |-> "none", pmid |-> 0, text |-> <<>>, pos |-> 0,
     existing_indices |-> {}, add |-> {}, del |-> {}, doc_add |-> {}, doc_del |-> {},
     art_add |-> {}, fetched |-> <<>>, met |-> FALSE, failed |-> FALSE]

IdleConns == [p \in Procs |-> IdleConn]

NoArticle == [pmid |-> 0, doi |-> <<>>, title |-> <<>>]

\* No exception raised.
NoError == [type |-> "none", document |-> "none"]

NoLookup ==
    [pc |-> "none", articles |-> <<>>, by_doi |-> <<>>, doi_tokens |-> <<>>,
     title_tokens |-> <<>>, text |-> <<>>, result |-> NoArticle, error |-> NoError]

Init ==
    /\ text_chunks = {}
    /\ chunk_embeddings = {}
    /\ documents = {}
    /\ next_chunk_id = 1
    /\ pubmed_articles = {}
    /\ query_logs = <<>>
    /\ \E cfg \in ChunkConfigs : chunk_size = cfg[1] /\ overlap_pct = cfg[2]
    /\ embed_model = "M1"
    /\ embed_normalize = FALSE
    /\ index_file = NoFile
    /\ ids_file = NoFile
    /\ meta_file = NoFile
    /\ last_op = NoOp
    /\ procs = IdleProcs
    /\ tx = IdleTx
    /\ lookup = NoLookup
    /\ conns = IdleConns

\* parse_directory.run over a directory holding one file, whose text the
\* metadata store resolves to pmid (an empty text resolves to nothing).
ParseStage(pmid, text) ==
    LET chunks == ChunkText(pmid, text, chunk_size, overlap_pct)
    IN IF text = <<>>
       THEN /\ pubmed_articles' = UploadMetadata(pubmed_articles, Pmids)
            /\ last_op' = Op("parse", pmid, text, FALSE, TRUE, <<>>)
            /\ UNCHANGED <<text_chunks, chunk_embeddings, documents, next_chunk_id,
                           query_logs, configVars, artifactVars, auxVars>>
       ELSE /\ pubmed_articles' = UploadMetadata(pubmed_articles, Pmids)
            /\ next_chunk_id + NewRowCount(text_chunks, chunks) - 1 <= MaxChunkId
            /\ LET up == UpsertChunks(text_chunks, next_chunk_id, chunks)
               IN /\ text_chunks' = up.tc
                  /\ next_chunk_id' = up.nid
                  /\ chunk_embeddings' = CascadeEmbeddings(chunk_embeddings, up.tc)
            /\ documents' = MarkProcessed(EnsureDocumentEntry(documents, pmid), pmid)
            /\ last_op' = [Op("parse", pmid, text, FALSE, FALSE, <<>>)
                              EXCEPT !.affected = Affected(text_chunks, chunks),
                                     !.removed = Removed(text_chunks, chunks)]
            /\ UNCHANGED <<query_logs, configVars, artifactVars, auxVars>>

\* embed_chunks.run
EmbedStage ==
    /\ chunk_embeddings' =
          EmbedRun(text_chunks, chunk_embeddings, embed_model, embed_normalize)
    /\ last_op' = [Op("embed", 0, <<>>, FALSE, FALSE, <<>>)
                      EXCEPT !.purged = Cardinality(chunk_embeddings
                                  \ DeleteEmbeddings(chunk_embeddings, embed_model))]
    /\ UNCHANGED <<text_chunks, documents, next_chunk_id, pubmed_articles, query_logs,
                   configVars, artifactVars, auxVars>>

\* index_flat.run without a query: ensure_index_build for the configured model.
IndexStage ==
    LET art == EnsureIndexBuild(chunk_embeddings, index_file, ids_file, meta_file,
                                embed_model, embed_normalize, 0)
    IN /\ index_file' = art.index
       /\ ids_file' = art.ids
       /\ meta_file' = art.meta
       /\ last_op' = Op("ensure", 0, <<>>, art.rebuilt, art.failed, <<>>)
       /\ UNCHANGED <<storeVars, configVars, auxVars>>

\* index_flat.main --build-only: build_index whatever the artifacts say.
BuildOnly ==
    LET art == BuildIndex(chunk_embeddings,
                          [index |-> index_file, ids |-> ids_file, meta |-> meta_file,
                           rebuilt |-> TRUE, failed |-> FALSE],
                          embed_model, embed_normalize, 0)
    IN /\ index_file' = art.index
       /\ ids_file' = art.ids
       /\ meta_file' = art.meta
       /\ last_op' = Op("build", 0, <<>>, art.rebuilt, art.failed, <<>>)
       /\ UNCHANGED <<storeVars, configVars, auxVars>>

\* search_index(config, query_text, k, answer_model=...): ensure_index_build,
\* np.load(ids_path), load_index, the search and the database part.  ranking
\* is what the query text amounts to, generated what generate_answer returns
\* for it.  ids is the id array the search maps rows through.
SearchIndex(k, answer_model, generated, ranking) ==
    LET art == EnsureIndexBuild(chunk_embeddings, index_file, ids_file, meta_file,
                                embed_model, embed_normalize, 0)
        q == RunQuery(art.ids.ids, art.index, text_chunks, documents, query_logs,
                      k, answer_model, generated, ranking)
    IN /\ index_file' = art.index
       /\ ids_file' = art.ids
       /\ meta_file' = art.meta
       /\ IF art.failed
          THEN /\ last_op' = [Op("search", 0, <<>>, art.rebuilt, TRUE, <<>>)
                                 EXCEPT !.args = <<k, answer_model, generated, ranking>>,
                                        !.error = "RuntimeError"]
               /\ UNCHANGED query_logs
          ELSE /\ Len(q.query_logs) <= MaxLogs
               /\ query_logs' = q.query_logs
               /\ last_op' = [Op("search", 0, <<>>, art.rebuilt, q.error # "none",
                                 art.ids.ids)
                                 EXCEPT !.args = <<k, answer_model, generated, ranking>>,
                                        !.requested = q.requested,
                                        !.out = q.ordered_results,
                                        !.answer = q.answer,
                                        !.query_id = q.query_id,
                                        !.indices = q.indices,
                                        !.scores = q.scores,
                                        !.error = q.error]
       /\ UNCHANGED <<text_chunks, chunk_embeddings, documents, next_chunk_id,
                      pubmed_articles, configVars, auxVars>>

\* A query without an answer model whose nearest vectors are the first rows
\* of the index.
PlainSearch == SearchIndex(1, FALSE, Null, [i \in 1..MaxChunkId |-> i])

\* config.toml edited between runs: [embed].model
SwitchModel(m) ==
    /\ m # embed_model
    /\ embed_model' = m
    /\ last_op' = Op("switch_model", 0, <<>>, FALSE, FALSE, <<>>)
    /\ UNCHANGED <<storeVars, chunk_size, overlap_pct, embed_normalize, artifactVars, auxVars>>

\* [embed].normalize edited, or --metric given to index_flat
SwitchMetric ==
    /\ embed_normalize' = ~embed_normalize
    /\ last_op' = Op("switch_metric", 0, <<>>, FALSE, FALSE, <<>>)
    /\ UNCHANGED <<storeVars, chunk_size, overlap_pct, embed_model, artifactVars, auxVars>>

\* DocumentRepository.delete_document by a requester allowed to: the article
\* row goes, and with it the chunks and their embeddings.
DeleteDocument(pmid) ==
    /\ \E d \in documents : d.pmid = pmid
    /\ pubmed_articles' = pubmed_articles \ {pmid}
    /\ documents' = {d \in documents : d.pmid # pmid}
    /\ text_chunks' = {r \in text_chunks : r.pmid # pmid}
    /\ chunk_embeddings' = CascadeEmbeddings(chunk_embeddings, text_chunks')
    /\ last_op' = Op("delete", pmid, <<>>, FALSE, FALSE, <<>>)
    /\ UNCHANGED <<next_chunk_id, query_logs, configVars, artifactVars, auxVars>>

\* The owner check left out: any requester deletes.
delete_document_unchecked(docs, arts, tc, ce, doc_id, requester_id, is_admin) ==
    LET rows == {d \in docs : d.doc_id = doc_id}
    IN IF rows = {}
       THEN [docs |-> docs, arts |-> arts, tc |-> tc, ce |-> ce, result |-> "False"]
       ELSE LET row == CHOOSE d \in rows : TRUE
                kept == {r \in tc : r.pmid # row.pmid}
            IN [docs |-> docs \ {row}, arts |-> arts \ {row.pmid}, tc |-> kept,
                ce |-> CascadeEmbeddings(ce, kept), result |-> "True"]

\* DocumentRepository.delete_document on the tables: what it leaves of them,
\* and what it returns or raises.  DELETE FROM pubmed_articles takes the
\* chunks of the article, and they their embeddings.
delete_document(docs, arts, tc, ce, doc_id, requester_id, is_admin) ==
    LET rows == {d \in docs : d.doc_id = doc_id}
    IN IF rows = {}
       THEN [docs |-> docs, arts |-> arts, tc |-> tc, ce |-> ce, result |-> "False"]
       ELSE LET row == CHOOSE d \in rows : TRUE
                kept == {r \in tc : r.pmid # row.pmid}
            IN IF ~is_admin /\ row.added_by # requester_id
               THEN [docs |-> docs, arts |-> arts, tc |-> tc, ce |-> ce,
                     result |-> "PermissionError"]
               ELSE [docs |-> docs \ {row}, arts |-> arts \ {row.pmid}, tc |-> kept,
                     ce |-> CascadeEmbeddings(ce, kept), result |-> "True"]

\* DELETE /curator/documents/{doc_id} by the user requester_id.
DeleteDocumentRequest(doc_id, requester_id, is_admin) ==
    LET r == delete_document(documents, pubmed_articles, text_chunks, chunk_embeddings,
                             doc_id, requester_id, is_admin)
    IN /\ documents' = r.docs
       /\ pubmed_articles' = r.arts
       /\ text_chunks' = r.tc
       /\ chunk_embeddings' = r.ce
       /\ last_op' = [Op("delete_document", doc_id, <<>>, FALSE,
                         r.result = "PermissionError", <<>>)
                         EXCEPT !.args = <<doc_id, requester_id, is_admin>>,
                                !.out = <<r.result>>,
                                !.removed = Cardinality(text_chunks \ r.tc)]
       /\ UNCHANGED <<next_chunk_id, query_logs, configVars, artifactVars, auxVars>>

\* A Document row with an owner, as the Document entity has it for a curator's
\* upload: the article's metadata is in, and the row is created when the
\* article has none.
EnsureOwnedDocumentEntry(pmid, added_by) ==
    /\ pubmed_articles' = pubmed_articles \cup {pmid}
    /\ documents' =
          IF \E d \in documents : d.pmid = pmid THEN documents
          ELSE documents \cup {[doc_id |-> pmid, pmid |-> pmid, processed |-> FALSE,
                                added_by |-> added_by]}
    /\ last_op' = Op("owned", pmid, <<>>, FALSE, FALSE, <<>>)
    /\ UNCHANGED <<text_chunks, chunk_embeddings, next_chunk_id, query_logs, configVars,
                   artifactVars, auxVars>>

\* build_index cut short after `written` of its three writes (the process
\* killed, the disk full): the files it reached are new, the others as before.
BuildInterrupted(written) ==
    LET fetched == FetchEmbeddings(chunk_embeddings, embed_model)
    IN /\ fetched # <<>>
       /\ index_file' = IndexFileOf(fetched, embed_normalize, 0)
       /\ ids_file' = IF written >= 2 THEN IdsFileOf(fetched, 0) ELSE ids_file
       /\ meta_file' = meta_file
       /\ last_op' = Op("build", 0, <<>>, TRUE, TRUE, <<>>)
       /\ UNCHANGED <<storeVars, configVars, auxVars>>

\* The chunk and embedding tables under ingestion and embedding.
Next ==
    \/ \E pmid \in Pmids, text \in Texts : ParseStage(pmid, text)
    \/ EmbedStage

Spec == Init /\ [][Next]_vars

\* The index artifacts under the pipeline stages, queries and configuration
\* changes; the documents are the prefixes of one token stream.
RECURSIVE IsIndexText(_)
IsIndexText(t) ==
    \/ t = <<>>
    \/ /\ t[Len(t)] = (IF Len(t) % 2 = 1 THEN "a" ELSE "bb")
       /\ IsIndexText(SubSeq(t, 1, Len(t) - 1))

IndexTexts == {t \in Texts : t # <<>> /\ IsIndexText(t)}

\* Documents with and without an owner, ingested, embedded and deleted.
NextDelete ==
    \/ \E pmid \in Pmids, text \in IndexTexts : ParseStage(pmid, text)
    \/ EmbedStage
    \/ \E pmid \in Pmids, added_by \in Users : EnsureOwnedDocumentEntry(pmid, added_by)
    \/ \E doc_id \in Pmids, requester_id \in Users, is_admin \in BOOLEAN :
          DeleteDocumentRequest(doc_id, requester_id, is_admin)

SpecDelete == Init /\ [][NextDelete]_vars

NextIndex ==
    \/ \E pmid \in Pmids, text \in IndexTexts : ParseStage(pmid, text)
    \/ EmbedStage
    \/ IndexStage
    \/ BuildOnly
    \/ PlainSearch
    \/ \E m \in Models : SwitchModel(m)
    \/ SwitchMetric
    \/ \E pmid \in Pmids : DeleteDocument(pmid)

SpecIndex == Init /\ [][NextIndex]_vars

\* Builds of the index, asked for or found necessary, over the embeddings
\* of one document under either model and either metric.
NextArtifacts ==
    \/ \E text \in IndexTexts : ParseStage(1, text)
    \/ EmbedStage
    \/ IndexStage
    \/ BuildOnly
    \/ \E m \in Models : SwitchModel(m)
    \/ SwitchMetric

SpecArtifacts == Init /\ [][NextArtifacts]_vars

\* Queries with and without an answer model over documents of one chunk that
\* are ingested and embedded, the first of them deleted as well: k is 1 or one more than the rows of the
\* largest index, and the query is nearest the first rows of the index or
\* nearest the last.
Ks == {1, MaxChunkId + 1}

Rankings == {[i \in 1..MaxChunkId |-> i], [i \in 1..MaxChunkId |-> MaxChunkId + 1 - i]}

NextSearch ==
    \/ \E pmid \in Pmids, text \in IndexTexts : Len(text) = 1 /\ ParseStage(pmid, text)
    \/ EmbedStage
    \/ DeleteDocument(1)
    \/ \E k \in Ks, generated \in Answers, ranking \in Rankings :
          SearchIndex(k, TRUE, generated, ranking)
    \/ \E k \in Ks, ranking \in Rankings : SearchIndex(k, FALSE, Null, ranking)

SpecSearch == Init /\ [][NextSearch]_vars

\* A citation for every result, seen before or not.
CitationsPerChunk(results) ==
    [j \in DOMAIN results |-> [pmid |-> results[j].pmid, doc_id |-> results[j].doc_id]]

\* for result in results: ... with seen_pmids and citations as they stand
\* before result j.
RECURSIVE CitationsFrom(_, _, _, _)
CitationsFrom(results, j, seen_pmids, citations) ==
    IF j > Len(results) THEN citations
    ELSE IF results[j].pmid \in seen_pmids
         THEN CitationsFrom(results, j + 1, seen_pmids, citations)
         ELSE CitationsFrom(results, j + 1, seen_pmids \cup {results[j].pmid},
                            Append(citations, [pmid |-> results[j].pmid,
                                               doc_id |-> results[j].doc_id]))

\* The citations of QueryService.run_query for the results of search_index.
Citations(results) == CitationsFrom(results, 1, {}, <<>>)

\* QueryService.run_query(query_text, top_k, include_answer=...): search_index
\* with the answer model when an answer is asked for, then the citations of
\* its results; what search_index raises, run_query raises.
QueryServiceRunQuery(top_k, include_answer, generated, ranking) ==
    LET art == EnsureIndexBuild(chunk_embeddings, index_file, ids_file, meta_file,
                                embed_model, embed_normalize, 0)
        q == RunQuery(art.ids.ids, art.index, text_chunks, documents, query_logs,
                      top_k, include_answer, generated, ranking)
    IN /\ index_file' = art.index
       /\ ids_file' = art.ids
       /\ meta_file' = art.meta
       /\ IF art.failed
          THEN /\ last_op' = [Op("run_query", 0, <<>>, art.rebuilt, TRUE, <<>>)
                                 EXCEPT !.args = <<top_k, include_answer, generated, ranking>>,
                                        !.error = "RuntimeError"]
               /\ UNCHANGED query_logs
          ELSE /\ Len(q.query_logs) <= MaxLogs
               /\ query_logs' = q.query_logs
               /\ last_op' = [Op("run_query", 0, <<>>, art.rebuilt, q.error # "none",
                                 art.ids.ids)
                                 EXCEPT !.args = <<top_k, include_answer, generated, ranking>>,
                                        !.requested = q.requested,
                                        !.out = q.ordered_results,
                                        !.answer = q.answer,
                                        !.query_id = q.query_id,
                                        !.indices = q.indices,
                                        !.scores = q.scores,
                                        !.citations = Citations(q.ordered_results),
                                        !.error = q.error]
       /\ UNCHANGED <<text_chunks, chunk_embeddings, documents, next_chunk_id,
                      pubmed_articles, configVars, auxVars>>

\* POST /query with an answer over documents of one chunk and of several,
\* embedded or not.
NextQuery ==
    \/ \E pmid \in Pmids, text \in IndexTexts : ParseStage(pmid, text)
    \/ EmbedStage
    \/ \E top_k \in Ks, ranking \in Rankings :
          QueryServiceRunQuery(top_k, TRUE, [null |-> FALSE, text |-> "answer"], ranking)

SpecQuery == Init /\ [][NextQuery]_vars

\* ensure_index_build over every state of the artifact files: one document,
\* embedded under either model and metric, builds run through or cut short.
NextEnsure ==
    \/ \E text \in {t \in IndexTexts : Len(t) = MaxTokens} : ParseStage(1, text)
    \/ EmbedStage
    \/ IndexStage
    \/ PlainSearch
    \/ \E m \in Models : SwitchModel(m)
    \/ SwitchMetric
    \/ \E written \in 1..2 : BuildInterrupted(written)

SpecEnsure == Init /\ [][NextEnsure]_vars

\* ------------------------------------------- callers running side by side
\* search_index and build_index taken one file operation at a time.  Every
\* execution of build_index that gets to write stamps its files with a number
\* of its own.
NextBuild ==
    1 + Max(Max(IF index_file.missing THEN 0 ELSE index_file.build,
                IF ids_file.missing THEN 0 ELSE ids_file.build),
            Max(IF meta_file.missing THEN 0 ELSE meta_file.build,
                Max(procs[1].build, procs[2].build)))

\* search_index is called (POST /query, index_flat --query).
StartSearch(p) ==
    /\ procs[p].pc = "idle"
    /\ procs' = [procs EXCEPT ![p] = [IdleProc EXCEPT !.pc = "ensure", !.caller = "search",
                           !.model = embed_model, !.normalize = embed_normalize]]
    /\ UNCHANGED <<storeVars, configVars, artifactVars, last_op, tx, lookup, conns>>

\* build_index is called directly (index_flat --build-only, ingest_document).
StartBuild(p) ==
    /\ procs[p].pc = "idle"
    /\ procs' = [procs EXCEPT ![p] = [IdleProc EXCEPT !.pc = "fetch", !.caller = "build",
                           !.model = embed_model, !.normalize = embed_normalize]]
    /\ UNCHANGED <<storeVars, configVars, artifactVars, last_op, tx, lookup, conns>>

\* ensure_index_build: the existence checks and the read of the descriptor.
EnsureStep(p) ==
    /\ procs[p].pc = "ensure"
    /\ procs' = [procs EXCEPT ![p] =
          IF NeedsRebuild(index_file, ids_file, meta_file, procs[p].model,
                          procs[p].normalize)
          THEN [@ EXCEPT !.pc = "fetch"]
          ELSE [@ EXCEPT !.pc = "load_ids", !.meta_build = meta_file.build]]
    /\ UNCHANGED <<storeVars, configVars, artifactVars, last_op, tx, lookup, conns>>

\* build_index: _fetch_embeddings in a connection of its own.
FetchStep(p) ==
    /\ procs[p].pc = "fetch"
    /\ LET fetched == FetchEmbeddings(chunk_embeddings, procs[p].model)
       IN IF fetched = <<>>
          THEN /\ procs' = [procs EXCEPT ![p] = IdleProc]
               /\ last_op' = Op(procs[p].caller, 0, <<>>, TRUE, TRUE, <<>>)
          ELSE /\ NextBuild <= MaxBuilds
               /\ procs' = [procs EXCEPT ![p] =
                     [@ EXCEPT !.pc = "write_index", !.fetched = fetched, !.build = NextBuild]]
               /\ UNCHANGED last_op
    /\ UNCHANGED <<storeVars, configVars, artifactVars, tx, lookup, conns>>

\* faiss.write_index(index, str(index_path))
WriteIndex(p) ==
    /\ procs[p].pc = "write_index"
    /\ index_file' = IndexFileOf(procs[p].fetched, procs[p].normalize, procs[p].build)
    /\ procs' = [procs EXCEPT ![p].pc = "write_ids"]
    /\ UNCHANGED <<storeVars, configVars, ids_file, meta_file, last_op, tx, lookup, conns>>

\* np.save(ids_path, chunk_ids)
WriteIds(p) ==
    /\ procs[p].pc = "write_ids"
    /\ ids_file' = IdsFileOf(procs[p].fetched, procs[p].build)
    /\ procs' = [procs EXCEPT ![p].pc = "write_meta"]
    /\ UNCHANGED <<storeVars, configVars, index_file, meta_file, last_op, tx, lookup, conns>>

\* meta_path.write_text(...); build_index returns, to search_index or for good.
WriteMeta(p) ==
    /\ procs[p].pc = "write_meta"
    /\ meta_file' = MetaFileOf(procs[p].fetched, procs[p].model, procs[p].normalize,
                               procs[p].build)
    /\ IF procs[p].caller = "search"
       THEN /\ procs' = [procs EXCEPT ![p] = [@ EXCEPT !.pc = "load_ids", !.fetched = <<>>,
                                                       !.meta_build = procs[p].build]]
            /\ UNCHANGED last_op
       ELSE /\ procs' = [procs EXCEPT ![p] = IdleProc]
            /\ last_op' = Op("build", 0, <<>>, TRUE, FALSE, <<>>)
    /\ UNCHANGED <<storeVars, configVars, index_file, ids_file, tx, lookup, conns>>

\* chunk_ids = np.load(ids_path)
LoadIds(p) ==
    /\ procs[p].pc = "load_ids"
    /\ procs' = [procs EXCEPT ![p] = [@ EXCEPT !.pc = "load_index", !.chunk_ids = ids_file]]
    /\ UNCHANGED <<storeVars, configVars, artifactVars, last_op, tx, lookup, conns>>

\* index = load_index(index_path)
LoadIndex(p) ==
    /\ procs[p].pc = "load_index"
    /\ procs' = [procs EXCEPT ![p] = [@ EXCEPT !.pc = "search", !.index = index_file]]
    /\ UNCHANGED <<storeVars, configVars, artifactVars, last_op, tx, lookup, conns>>

\* index.search(...) over what was loaded, the mapping of rows to chunk ids
\* and the database part, for a query without an answer model that is nearest
\* the first rows of the index.
SearchStep(p) ==
    LET q == RunQuery(procs[p].chunk_ids.ids, procs[p].index, text_chunks, documents,
                      query_logs, 1, FALSE, Null, [i \in 1..MaxChunkId |-> i])
    IN /\ procs[p].pc = "search"
       /\ Len(q.query_logs) <= MaxLogs
       /\ query_logs' = q.query_logs
       /\ last_op' = [Op("search", 0, <<>>, procs[p].build > 0, q.error # "none",
                         procs[p].chunk_ids.ids)
                         EXCEPT !.args = <<1, FALSE, Null, [i \in 1..MaxChunkId |-> i]>>,
                                !.requested = q.requested,
                                !.out = q.ordered_results,
                                !.answer = q.answer,
                                !.query_id = q.query_id,
                                !.indices = q.indices,
                                !.scores = q.scores,
                                !.error = q.error]
       /\ procs' = [procs EXCEPT ![p] = IdleProc]
       /\ UNCHANGED <<text_chunks, chunk_embeddings, documents, next_chunk_id,
                      pubmed_articles, configVars, artifactVars, tx, lookup, conns>>

NextConc ==
    \/ \E text \in IndexTexts : Len(text) = MaxTokens /\ ParseStage(1, text)
    \/ EmbedStage
    \/ \E p \in Procs : StartSearch(p)
    \/ \E p \in Procs : StartBuild(p)
    \/ \E p \in Procs : EnsureStep(p)
    \/ \E p \in Procs : FetchStep(p)
    \/ \E p \in Procs : WriteIndex(p)
    \/ \E p \in Procs : WriteIds(p)
    \/ \E p \in Procs : WriteMeta(p)
    \/ \E p \in Procs : LoadIds(p)
    \/ \E p \in Procs : LoadIndex(p)
    \/ \E p \in Procs : SearchStep(p)

SpecConc == Init /\ [][NextConc]_vars

\* A query (caller 1) beside runs of index_flat --build-only (caller 2), each
\* with the configuration it was started with: the CLI run is given --metric,
\* or starts after [embed].normalize was edited.
NextDrift ==
    \/ \E text \in IndexTexts : Len(text) = 1 /\ ParseStage(1, text)
    \/ EmbedStage
    \/ SwitchMetric
    \/ StartSearch(1)
    \/ StartBuild(2)
    \/ \E p \in Procs : EnsureStep(p)
    \/ \E p \in Procs : FetchStep(p)
    \/ \E p \in Procs : WriteIndex(p)
    \/ \E p \in Procs : WriteIds(p)
    \/ \E p \in Procs : WriteMeta(p)
    \/ \E p \in Procs : LoadIds(p)
    \/ \E p \in Procs : LoadIndex(p)
    \/ \E p \in Procs : SearchStep(p)

SpecDrift == Init /\ [][NextDrift]_vars

\* ------------------------------------------------------- normalize_text
\* Characters of a raw document: a letter, the space, the tab, a letter
\* outside ASCII (U+00E9) and the no-break space (U+00A0).
RawChars == {"a", " ", "\t", "U+00E9", "U+00A0"}

RawTexts == SeqsUpTo(RawChars, MaxTextLen)

\* What encode("ascii", "ignore") keeps.
IsAscii(c) == c \in {"a", " ", "\t"}

\* What \s matches in a str pattern, and what str.strip() removes.
IsSpace(c) == c \in {" ", "\t", "U+00A0"}

RECURSIVE DropSpaces(_)
DropSpaces(str) ==
    IF str # <<>> /\ IsSpace(Head(str)) THEN DropSpaces(Tail(str)) ELSE str

\* re.sub(r"\s", " ", str): every whitespace character on its own.
SubEachSpace(str) == [i \in DOMAIN str |-> IF IsSpace(str[i]) THEN " " ELSE str[i]]

\* re.sub(r"\s+", " ", str)
RECURSIVE SubSpaceRuns(_)
SubSpaceRuns(str) ==
    IF str = <<>> THEN <<>>
    ELSE IF IsSpace(Head(str)) THEN <<" ">> \o SubSpaceRuns(DropSpaces(Tail(str)))
    ELSE <<Head(str)>> \o SubSpaceRuns(Tail(str))

\* str.strip() without arguments
RECURSIVE StripSpace(_)
StripSpace(str) ==
    IF str = <<>> THEN str
    ELSE IF IsSpace(Head(str)) THEN StripSpace(Tail(str))
    ELSE IF IsSpace(str[Len(str)]) THEN StripSpace(SubSeq(str, 1, Len(str) - 1))
    ELSE str

\* Whitespace replaced character by character.
NormalizeTextEachSpace(raw_text) ==
    StripSpace(SubEachSpace(SelectSeq(raw_text, IsAscii)))

NormalizeText(raw_text) ==
    LET ascii_text == SelectSeq(raw_text, IsAscii)
        collapsed == SubSpaceRuns(ascii_text)
    IN StripSpace(collapsed)

\* normalize_text(raw_text)
NormalizeTextCall(raw_text) ==
    /\ last_op' = [NoOp EXCEPT !.op = "normalize_text", !.args = <<raw_text>>,
                               !.out = NormalizeText(raw_text)]
    /\ UNCHANGED <<storeVars, configVars, artifactVars, auxVars>>

\* One call, on any raw text: the function keeps no state between calls.
NextNormalize ==
    \E raw_text \in RawTexts : last_op.op = "init" /\ NormalizeTextCall(raw_text)

SpecNormalize == Init /\ [][NextNormalize]_vars

\* ------------------------------------------------- the chunker by itself
ChunkerTexts == SeqsUpTo(Tokens, MaxTokens + 2)

\* chunk_text(pmid, text, chunk_size, overlap_ratio)
ChunkTextCall(pmid, text, size, pct) ==
    /\ last_op' = [NoOp EXCEPT !.op = "chunk_text", !.pmid = pmid, !.text = text,
                               !.args = <<size, pct>>,
                               !.out = ChunkText(pmid, text, size, pct)]
    /\ UNCHANGED <<storeVars, configVars, artifactVars, auxVars>>

NextChunk ==
    \E pmid \in Pmids, text \in ChunkerTexts, cfg \in ChunkerConfigs :
        ChunkTextCall(pmid, text, cfg[1], cfg[2])

SpecChunk == Init /\ [][NextChunk]_vars

\* ------------------------------- parse_directory.run, statement by statement
\* The table variables are what the open connection sees; tx.base is what was
\* committed when it opened.  Values drawn from the serial are not given back.
IsProcessed(docs, pmid) == \E d \in docs : d.pmid = pmid /\ d.processed

\* What a statement can meet: nothing, an exception raised in the client
\* before the statement is sent (psycopg.DataError adapting a parameter), or
\* an error of the server, which leaves the transaction aborted.
Faults == {"none", "client", "server"}

\* The files of a directory in the order of gather_files, each with the
\* article its text resolves to: one file, or one file for each article.
OneFileBatches == {<<[pmid |-> pmid, text |-> text]>> : pmid \in Pmids, text \in Texts}

TwoFileBatches ==
    {<<[pmid |-> 1, text |-> t1], [pmid |-> 2, text |-> t2]>> :
        t1 \in {t \in Texts : Len(t) <= 1}, t2 \in {t \in Texts : Len(t) <= 1}}

\* The rows the serial has to number when the files are new.
RECURSIVE NewRowsOf(_, _, _, _)
NewRowsOf(tc, files, size, pct) ==
    IF files = <<>> THEN 0
    ELSE NewRowCount(tc, ChunkText(Head(files).pmid, Head(files).text, size, pct))
         + NewRowsOf(tc, Tail(files), size, pct)

\* for path in gather_files(raw_dir): the next file; conn.transaction() opens
\* a savepoint, process_document reads and normalizes the text.
StartFile(t, tc, docs) ==
    LET file == Head(t.queue)
    IN [t EXCEPT !.pc = "resolve", !.pmid = file.pmid, !.text = file.text,
                 !.pos = 0, !.existing_indices = {}, !.failed = FALSE,
                 !.queue = Tail(t.queue),
                 !.attempted = @ \cup {file.pmid},
                 !.before = RowsOf(tc, file.pmid),
                 !.was_processed = IsProcessed(docs, file.pmid)]

\* psycopg.connect, SET search_path, upload_metadata_to_db, then the first
\* file of the directory.
BeginRun(files) ==
    /\ tx.pc = "closed"
    /\ next_chunk_id + NewRowsOf(text_chunks, files, chunk_size, overlap_pct) - 1
          <= MaxChunkId
    /\ tx' = StartFile([IdleTx EXCEPT !.status = "intrans",
                                      !.base = <<text_chunks, chunk_embeddings,
                                                 documents, pubmed_articles>>,
                                      !.files = files,
                                      !.queue = files],
                       text_chunks, documents)
    /\ pubmed_articles' = UploadMetadata(pubmed_articles, Pmids)
    /\ UNCHANGED <<text_chunks, chunk_embeddings, documents, next_chunk_id, query_logs,
                   configVars, artifactVars, last_op, procs, lookup, conns>>

\* metadata_store.resolve: raises when the text matches no article.
ResolveStep ==
    /\ tx.pc = "resolve"
    /\ tx' = IF tx.text = <<>>
             THEN [tx EXCEPT !.pc = "caught", !.failed = TRUE]
             ELSE [tx EXCEPT !.pc = "document"]
    /\ UNCHANGED <<storeVars, configVars, artifactVars, last_op, procs, lookup, conns>>

\* ensure_pubmed_document_entry, chunk_text, and the SELECT of upsert_chunks.
DocumentStep(fault) ==
    /\ tx.pc = "document"
    /\ fault \in {"none", "server"}
    /\ IF fault = "none"
       THEN /\ documents' = EnsureDocumentEntry(documents, tx.pmid)
            /\ tx' = [tx EXCEPT !.pc = "upsert", !.pos = 1,
                        !.existing_indices =
                            {r.chunk_index : r \in RowsOf(text_chunks, tx.pmid)}]
       ELSE /\ tx' = [tx EXCEPT !.pc = "caught", !.failed = TRUE, !.status = "aborted"]
            /\ UNCHANGED documents
    /\ UNCHANGED <<text_chunks, chunk_embeddings, next_chunk_id, pubmed_articles,
                   query_logs, configVars, artifactVars, last_op, procs, lookup, conns>>

\* executemany, one parameter row at a time: the row is adapted, sent and run.
UpsertRowStep(fault) ==
    /\ tx.pc = "upsert"
    /\ LET chunks == ChunkText(tx.pmid, tx.text, chunk_size, overlap_pct)
       IN IF fault = "none"
          THEN LET st == UpsertOneChunk([tc |-> text_chunks, nid |-> next_chunk_id],
                                        chunks[tx.pos])
               IN /\ text_chunks' = st.tc
                  /\ next_chunk_id' = st.nid
                  /\ tx' = IF tx.pos = Len(chunks)
                           THEN [tx EXCEPT !.pc = "delete_stale"]
                           ELSE [tx EXCEPT !.pos = tx.pos + 1]
          ELSE /\ tx' = [tx EXCEPT !.pc = "caught", !.failed = TRUE,
                            !.status = IF fault = "server" THEN "aborted" ELSE @]
               /\ UNCHANGED <<text_chunks, next_chunk_id>>
    /\ UNCHANGED <<chunk_embeddings, documents, pubmed_articles, query_logs,
                   configVars, artifactVars, last_op, procs, lookup, conns>>

\* DELETE FROM text_chunks ... chunk_index = ANY(stale_indices), when there are any.
DeleteStaleStep(fault) ==
    /\ tx.pc = "delete_stale"
    /\ fault \in {"none", "server"}
    /\ LET chunks == ChunkText(tx.pmid, tx.text, chunk_size, overlap_pct)
           new_indices == {chunks[i].chunk_index : i \in DOMAIN chunks}
       IN IF fault = "none" \/ tx.existing_indices \ new_indices = {}
          THEN /\ text_chunks' = DeleteStale(text_chunks, tx.pmid,
                                             tx.existing_indices, new_indices)
               /\ chunk_embeddings' = CascadeEmbeddings(chunk_embeddings, text_chunks')
               /\ tx' = [tx EXCEPT !.pc = "mark"]
          ELSE /\ tx' = [tx EXCEPT !.pc = "caught", !.failed = TRUE, !.status = "aborted"]
               /\ UNCHANGED <<text_chunks, chunk_embeddings>>
    /\ UNCHANGED <<documents, next_chunk_id, pubmed_articles, query_logs,
                   configVars, artifactVars, last_op, procs, lookup, conns>>

\* UPDATE documents SET processed = TRUE WHERE pmid = %s
MarkStep(fault) ==
    /\ tx.pc = "mark"
    /\ fault \in {"none", "server"}
    /\ IF fault = "none"
       THEN /\ documents' = MarkProcessed(documents, tx.pmid)
            /\ tx' = [tx EXCEPT !.pc = "done"]
       ELSE /\ tx' = [tx EXCEPT !.pc = "caught", !.failed = TRUE, !.status = "aborted"]
            /\ UNCHANGED documents
    /\ UNCHANGED <<text_chunks, chunk_embeddings, next_chunk_id, pubmed_articles,
                   query_logs, configVars, artifactVars, last_op, procs, lookup, conns>>

\* The end of the with block, reached by `continue` from the except clause or
\* by falling through: no exception is in flight, so the savepoint is released.
\* In an aborted transaction the release fails, the error leaves run, and the
\* connection rolls back; otherwise the loop goes on to the next file, and
\* after the last one the connection commits.
ExitBlock ==
    LET failed_docs == IF tx.failed THEN tx.failed_docs \cup {tx.pmid} ELSE tx.failed_docs
        closed == [IdleTx EXCEPT !.pmid = tx.pmid, !.text = tx.text,
                                 !.failed = tx.failed, !.before = tx.before,
                                 !.was_processed = tx.was_processed,
                                 !.files = tx.files, !.attempted = tx.attempted,
                                 !.failed_docs = failed_docs]
    IN /\ tx.pc \in {"caught", "done"}
       /\ IF tx.status = "aborted"
          THEN /\ text_chunks' = tx.base[1]
               /\ chunk_embeddings' = tx.base[2]
               /\ documents' = tx.base[3]
               /\ pubmed_articles' = tx.base[4]
               /\ tx' = closed
               /\ last_op' = Op("parse", tx.pmid, tx.text, FALSE, TRUE, <<>>)
          ELSE IF tx.queue # <<>>
          THEN /\ tx' = StartFile([tx EXCEPT !.failed_docs = failed_docs],
                                  text_chunks, documents)
               /\ UNCHANGED <<text_chunks, chunk_embeddings, documents,
                              pubmed_articles, last_op>>
          ELSE /\ tx' = closed
               /\ last_op' = Op("parse", tx.pmid, tx.text, FALSE, tx.failed, <<>>)
               /\ UNCHANGED <<text_chunks, chunk_embeddings, documents, pubmed_articles>>
       /\ UNCHANGED <<next_chunk_id, query_logs, configVars, artifactVars, procs, lookup, conns>>

NextTx ==
    \/ \E files \in OneFileBatches : BeginRun(files)
    \/ ResolveStep
    \/ \E fault \in Faults : DocumentStep(fault)
    \/ \E fault \in Faults : UpsertRowStep(fault)
    \/ \E fault \in Faults : DeleteStaleStep(fault)
    \/ \E fault \in Faults : MarkStep(fault)
    \/ ExitBlock

SpecTx == Init /\ [][NextTx]_vars

\* Runs over directories of two files.
NextBatch ==
    \/ \E files \in TwoFileBatches : BeginRun(files)
    \/ ResolveStep
    \/ \E fault \in Faults : DocumentStep(fault)
    \/ \E fault \in Faults : UpsertRowStep(fault)
    \/ \E fault \in Faults : DeleteStaleStep(fault)
    \/ \E fault \in Faults : MarkStep(fault)
    \/ ExitBlock

SpecBatch == Init /\ [][NextBatch]_vars

\* ------------------------------------------------------- MetadataStore
\* Strings are sequences of characters.  An article without a DOI has the
\* empty one (None and "" are both false where the code tests article.doi).
Chars == {"a", "A", "b", "/"}

DocTexts == SeqsUpTo(Chars, MaxTextLen)

\* DOIs as load_metadata_rows leaves them: stripped and lowercase, or absent.
DoiValues == {<<>>, <<"/">>, <<"a", "/", "a">>, <<"a", "a">>}

TitleValues == {<<"b">>, <<"A", "b">>, <<"a", "a">>}

\* Metadata of one article, or of two.
ArticleLists ==
    {<<[pmid |-> 1, doi |-> d1, title |-> t1]>> : d1 \in DoiValues, t1 \in TitleValues}
    \cup
    {<<[pmid |-> 1, doi |-> d1, title |-> t1], [pmid |-> 2, doi |-> d2, title |-> t2]>> :
        d1 \in DoiValues, d2 \in DoiValues, t1 \in TitleValues, t2 \in TitleValues}

\* Names of uploaded files.
DocumentPaths == {"a.txt", "b.txt"}

\* str.lower()
LowerChar(c) == IF c = "A" THEN "a" ELSE c

Lower(str) == [i \in DOMAIN str |-> LowerChar(str[i])]

\* str.strip()
RECURSIVE Strip(_)
Strip(str) ==
    IF str = <<>> THEN str
    ELSE IF Head(str) = " " THEN Strip(Tail(str))
    ELSE IF str[Len(str)] = " " THEN Strip(SubSeq(str, 1, Len(str) - 1))
    ELSE str

IsLowerAlnum(c) == c \in {"a", "b", "c"}

\* _normalize_for_match: re.sub(r"[^a-z0-9]", "", value.lower())
NormalizeForMatch(value) == SelectSeq(Lower(value), IsLowerAlnum)

\* needle in hay
Contains(needle, hay) ==
    \E i \in 0..(Len(hay) - Len(needle)) : SubSeq(hay, i + 1, i + Len(needle)) = needle

\* hay.find(needle): the first 0-based position, or -1
Find(needle, hay) ==
    IF Contains(needle, hay)
    THEN CHOOSE i \in 0..(Len(hay) - Len(needle)) :
            /\ SubSeq(hay, i + 1, i + Len(needle)) = needle
            /\ \A j \in 0..(i - 1) : SubSeq(hay, j + 1, j + Len(needle)) # needle
    ELSE -1

\* d[key] = value on a dict kept as its list of items: a key that is there
\* keeps its place and gets the new value.
DictPut(d, key, value) ==
    IF \E i \in DOMAIN d : d[i][1] = key
    THEN [i \in DOMAIN d |-> IF d[i][1] = key THEN <<key, value>> ELSE d[i]]
    ELSE Append(d, <<key, value>>)

\* self._by_doi
RECURSIVE ByDoi(_)
ByDoi(articles) ==
    IF articles = <<>> THEN <<>>
    ELSE LET front == ByDoi(SubSeq(articles, 1, Len(articles) - 1))
             article == articles[Len(articles)]
         IN IF article.doi # <<>>
            THEN DictPut(front, Lower(Strip(article.doi)), article)
            ELSE front

\* self._doi_tokens
RECURSIVE DoiTokens(_)
DoiTokens(articles) ==
    IF articles = <<>> THEN <<>>
    ELSE LET front == DoiTokens(SubSeq(articles, 1, Len(articles) - 1))
             article == articles[Len(articles)]
         IN IF article.doi # <<>>
            THEN DictPut(front, NormalizeForMatch(article.doi), article)
            ELSE front

\* list.sort(key=len of the token, reverse=True): stable, longest first.
RECURSIVE SortByLenDesc(_)
SortByLenDesc(pairs) ==
    IF pairs = <<>> THEN <<>>
    ELSE LET i == CHOOSE k \in DOMAIN pairs :
                    /\ \A j \in DOMAIN pairs : Len(pairs[k][1]) >= Len(pairs[j][1])
                    /\ \A j \in 1..(k - 1) : Len(pairs[j][1]) < Len(pairs[k][1])
         IN <<pairs[i]>> \o SortByLenDesc(SubSeq(pairs, 1, i - 1)
                                           \o SubSeq(pairs, i + 1, Len(pairs)))

\* self._title_tokens
TitleTokens(articles) ==
    SortByLenDesc(SelectSeq([i \in DOMAIN articles |->
                                <<NormalizeForMatch(articles[i].title), articles[i]>>],
                            LAMBDA pair : pair[2].title # <<>>))

\* The first item of the dict whose non-empty key occurs in the text.
FirstKeyIn(items, hay) ==
    LET hits == {i \in DOMAIN items : items[i][1] # <<>> /\ Contains(items[i][1], hay)}
    IN IF hits = {} THEN NoArticle
       ELSE items[CHOOSE i \in hits : \A j \in hits : i <= j][2]

MatchDoiToken(doi_tokens, normalized) == FirstKeyIn(doi_tokens, normalized)

MatchDoiLiteral(by_doi, lowered) == FirstKeyIn(by_doi, lowered)

\* score = len(token) - penalty * pos
TitleScore(token, normalized) ==
    FloatSub(FloatOfInt(Len(token)), FloatMulInt(Penalty, Find(token, normalized)))

\* The loop of _match_title from the i-th title on.  best is the place in the
\* list of best_article, 0 while best_score is still -inf; best_score is the
\* score of the title at that place.
RECURSIVE MatchTitleFrom(_, _, _, _)
MatchTitleFrom(title_tokens, normalized, i, best) ==
    IF i > Len(title_tokens)
    THEN IF best = 0 THEN NoArticle ELSE title_tokens[best][2]
    ELSE LET token == title_tokens[i][1]
         IN IF token = <<>> \/ Find(token, normalized) = -1
            THEN MatchTitleFrom(title_tokens, normalized, i + 1, best)
            ELSE IF best = 0 \/ FloatGreater(TitleScore(token, normalized),
                                             TitleScore(title_tokens[best][1], normalized))
                 THEN MatchTitleFrom(title_tokens, normalized, i + 1, i)
                 ELSE MatchTitleFrom(title_tokens, normalized, i + 1, best)

MatchTitle(title_tokens, normalized) == MatchTitleFrom(title_tokens, normalized, 1, 0)

\* The title tried before the DOI with its punctuation stripped.
ResolveByTextTitleFirst(store, text) ==
    IF text = <<>> THEN NoArticle
    ELSE LET window == SubSeq(text, 1, Min(Len(text), MAX_TEXT_WINDOW))
             lowered == Lower(window)
             doi_literal == MatchDoiLiteral(store.by_doi, lowered)
             normalized == NormalizeForMatch(window)
             by_title == MatchTitle(store.title_tokens, normalized)
         IN IF doi_literal # NoArticle THEN doi_literal
            ELSE IF by_title # NoArticle THEN by_title
            ELSE MatchDoiToken(store.doi_tokens, normalized)

\* The matchers run over the whole text.
ResolveByTextUnbounded(store, text) ==
    IF text = <<>> THEN NoArticle
    ELSE LET lowered == Lower(text)
             doi_literal == MatchDoiLiteral(store.by_doi, lowered)
             normalized == NormalizeForMatch(text)
             doi_token == MatchDoiToken(store.doi_tokens, normalized)
         IN IF doi_literal # NoArticle THEN doi_literal
            ELSE IF doi_token # NoArticle THEN doi_token
            ELSE MatchTitle(store.title_tokens, normalized)

\* _resolve_by_text; NoArticle stands for None.
ResolveByText(store, text) ==
    IF text = <<>> THEN NoArticle
    ELSE LET window == SubSeq(text, 1, Min(Len(text), MAX_TEXT_WINDOW))
             lowered == Lower(window)
             doi_literal == MatchDoiLiteral(store.by_doi, lowered)
             normalized == NormalizeForMatch(window)
             doi_token == MatchDoiToken(store.doi_tokens, normalized)
         IN IF doi_literal # NoArticle THEN doi_literal
            ELSE IF doi_token # NoArticle THEN doi_token
            ELSE MatchTitle(store.title_tokens, normalized)

\* MetadataStore.__init__
MetadataStore(articles) ==
    [NoLookup EXCEPT !.pc = "store",
                     !.articles = articles,
                     !.by_doi = ByDoi(articles),
                     !.doi_tokens = DoiTokens(articles),
                     !.title_tokens = TitleTokens(articles)]

\* MetadataStore(articles)
NewStore(articles) ==
    /\ lookup.pc = "none"
    /\ lookup' = MetadataStore(articles)
    /\ UNCHANGED <<storeVars, configVars, artifactVars, last_op, procs, tx, conns>>

\* The sole candidate returned when nothing matches.
ResolveSoleCandidate(store, document_path, text) ==
    LET text_match == ResolveByText(store, text)
    IN IF text_match # NoArticle THEN [result |-> text_match, error |-> NoError]
       ELSE IF Len(store.articles) = 1
            THEN [result |-> store.articles[1], error |-> NoError]
            ELSE [result |-> NoArticle,
                  error |-> [type |-> "LookupError", document |-> document_path]]

\* resolve: the article, or a LookupError whose message holds the file name.
Resolve(store, document_path, text) ==
    LET text_match == ResolveByText(store, text)
    IN IF text_match # NoArticle THEN [result |-> text_match, error |-> NoError]
       ELSE [result |-> NoArticle,
             error |-> [type |-> "LookupError", document |-> document_path]]

\* store.resolve(document_path, text)
ResolveCall(document_path, text) ==
    /\ lookup.pc = "store"
    /\ LET out == Resolve(lookup, document_path, text)
       IN lookup' = [lookup EXCEPT !.pc = "resolved",
                                   !.text = text,
                                   !.result = out.result,
                                   !.error = out.error]
    /\ UNCHANGED <<storeVars, configVars, artifactVars, last_op, procs, tx, conns>>

NextResolve ==
    \/ \E articles \in ArticleLists : NewStore(articles)
    \/ \E text \in DocTexts : ResolveCall("a.txt", text)

SpecResolve == Init /\ [][NextResolve]_vars

\* ---- title matching over long texts
\* Texts in which one title starts after a short run of other characters and
\* a second one a hundred or so characters later; the longest of them passes
\* the end of the scan window.  The empty text and texts without any title
\* are among them.
Filler(n) == [i \in 1..n |-> "c"]

TitleTexts ==
    {Filler(p) \o s \o Filler(g) \o t :
        p \in {0, 8}, g \in {0, 99, 100},
        s \in {<<>>, <<"b">>, <<"a", "a">>},
        t \in {<<>>, <<"b">>, <<"a", "a">>, <<"A", "b">>}}

NextTitle ==
    \/ \E articles \in ArticleLists : NewStore(articles)
    \/ \E document_path \in DocumentPaths, text \in TitleTexts :
            ResolveCall(document_path, text)

SpecTitle == Init /\ [][NextTitle]_vars

\* ---- texts around the end of the scan window
\* A DOI or a title that ends before the end of the window, on it, across it
\* or starts after it, alone or after an early title.
WindowTexts ==
    {h \o Filler(p - Len(h)) \o s :
        h \in {<<>>, <<"b">>},
        p \in (MAX_TEXT_WINDOW - 3)..(MAX_TEXT_WINDOW + 1),
        s \in {<<"a", "/", "a">>, <<"A", "b">>, <<"a", "a">>, <<"/">>}}

NextWindow ==
    \/ \E articles \in ArticleLists : NewStore(articles)
    \/ \E text \in WindowTexts : ResolveCall("a.txt", text)

SpecWindow == Init /\ [][NextWindow]_vars

\* ------------------------------------------- PipelineService.ingest_document
\* The characters of a token, and a normalized text as the string its tokens
\* make, a single space between two of them.
TokenChars(t) == IF t = "a" THEN <<"a">> ELSE <<"b", "b">>

RECURSIVE JoinTokens(_)
JoinTokens(tokens) ==
    IF tokens = <<>> THEN <<>>
    ELSE IF Len(tokens) = 1 THEN TokenChars(tokens[1])
    ELSE TokenChars(tokens[1]) \o <<" ">> \o JoinTokens(Tail(tokens))

\* The metadata rows of an upload: none, one article or two, without DOIs.
IngestRows ==
    {<<>>}
    \cup {<<[pmid |-> 1, doi |-> <<>>, title |-> t1]>> : t1 \in TitleValues}
    \cup {<<[pmid |-> 1, doi |-> <<>>, title |-> t1],
             [pmid |-> 2, doi |-> <<>>, title |-> t2]>> :
              t1 \in TitleValues, t2 \in TitleValues}

\* The parameters of ensure_pubmed_document_entry and the arguments
\* ingest_document calls it with; the call binds when every argument has a
\* parameter, and raises TypeError otherwise.
EnsureEntryParameters == {"conn", "article"}

IngestEntryArguments == {"conn", "article", "added_by"}

EntryCallBinds == IngestEntryArguments \subseteq EnsureEntryParameters

\* A failure that takes the processed flag back from every document.
IngestRaisedResetting(error) ==
    [error |-> error, pmid |-> 0, rebuilt |-> FALSE,
     chunk_count |-> 0, embedding_count |-> 0,
     tc |-> text_chunks, nid |-> next_chunk_id, ce |-> chunk_embeddings,
     docs |-> {[d EXCEPT !.processed = FALSE] : d \in documents},
     articles |-> pubmed_articles,
     index |-> index_file, ids |-> ids_file, meta |-> meta_file]

\* What ingest_document leaves when it raises error: the connection rolled
\* back, the artifacts as they were.
IngestRaised(error) ==
    [error |-> error, pmid |-> 0, rebuilt |-> FALSE,
     chunk_count |-> 0, embedding_count |-> 0,
     tc |-> text_chunks, nid |-> next_chunk_id, ce |-> chunk_embeddings,
     docs |-> documents, articles |-> pubmed_articles,
     index |-> index_file, ids |-> ids_file, meta |-> meta_file]

\* _count_embeddings: SELECT COUNT(*) FROM chunk_embeddings WHERE pmid = %s AND
\* model_name = %s
CountEmbeddings(ce, pmid, model_name) ==
    Cardinality({e \in ce : e.pmid = pmid /\ e.model_name = model_name})

\* upload_metadata_to_db, ensure_pubmed_document_entry, upsert_chunks and the
\* commit, then embed_chunks.run, build_index and the counts of the result.
IngestWrites(metadata_rows, article, chunks) ==
    LET up == UpsertChunks(text_chunks, next_chunk_id, chunks)
        embedded == EmbedRun(up.tc, CascadeEmbeddings(chunk_embeddings, up.tc),
                             embed_model, embed_normalize)
        art == BuildIndex(embedded,
                          [index |-> index_file, ids |-> ids_file, meta |-> meta_file,
                           rebuilt |-> TRUE, failed |-> FALSE],
                          embed_model, embed_normalize, 0)
    IN [error |-> IF art.failed THEN "RuntimeError" ELSE "none",
        pmid |-> article.pmid, rebuilt |-> art.rebuilt,
        chunk_count |-> Len(chunks),
        embedding_count |-> CountEmbeddings(embedded, article.pmid, embed_model),
        tc |-> up.tc, nid |-> up.nid, ce |-> embedded,
        docs |-> MarkProcessed(EnsureDocumentEntry(documents, article.pmid), article.pmid),
        articles |-> UploadMetadata(pubmed_articles,
                        {metadata_rows[i].pmid : i \in DOMAIN metadata_rows}),
        index |-> art.index, ids |-> art.ids, meta |-> art.meta]

\* ingest_document once resolve has returned or raised (out).  An exception
\* inside `with psycopg.connect(...)` rolls the connection back.
IngestOutcome(metadata_rows, out, tokens) ==
    LET article == IF out.error = NoError THEN out.result ELSE metadata_rows[1]
    IN IF metadata_rows = <<>>
       THEN IngestRaised("ValueError")
       ELSE IF out.error # NoError /\ Len(metadata_rows) # 1
       THEN IngestRaised("LookupError")
       ELSE IF ~EntryCallBinds
       THEN IngestRaised("TypeError")
       ELSE IF ChunkText(article.pmid, tokens, chunk_size, overlap_pct) = <<>>
       THEN IngestRaised("ValueError")
       ELSE IngestWrites(metadata_rows, article,
                         ChunkText(article.pmid, tokens, chunk_size, overlap_pct))

\* The state after ingest_document, and what the caller sees of it.
IngestReturn(metadata_rows, document_path, added_by, tokens, resolved, o) ==
    /\ o.nid - 1 <= MaxChunkId
    /\ lookup' = IF metadata_rows = <<>> THEN NoLookup ELSE resolved
    /\ text_chunks' = o.tc
    /\ next_chunk_id' = o.nid
    /\ chunk_embeddings' = o.ce
    /\ documents' = o.docs
    /\ pubmed_articles' = o.articles
    /\ index_file' = o.index
    /\ ids_file' = o.ids
    /\ meta_file' = o.meta
    /\ last_op' = [NoOp EXCEPT !.op = "ingest", !.text = tokens, !.pmid = o.pmid,
                               !.args = <<metadata_rows, document_path, added_by>>,
                               !.rebuilt = o.rebuilt,
                               !.out = <<o.chunk_count, o.embedding_count>>,
                               !.failed = o.error # "none",
                               !.error = o.error]
    /\ UNCHANGED <<query_logs, configVars, procs, tx, conns>>

\* metadata_store.resolve(document_path, normalized_text) and what follows.
IngestResolved(metadata_rows, document_path, added_by, tokens, metadata_store, out) ==
    IngestReturn(metadata_rows, document_path, added_by, tokens,
                 [metadata_store EXCEPT !.pc = "resolved",
                                        !.text = JoinTokens(tokens),
                                        !.result = out.result,
                                        !.error = out.error],
                 IngestOutcome(metadata_rows, out, tokens))

\* ingest_document(document_path, metadata_rows, added_by=added_by), the
\* document reading as the given tokens.
IngestDocument(metadata_rows, document_path, added_by, tokens) ==
    IngestResolved(metadata_rows, document_path, added_by, tokens,
                   MetadataStore(metadata_rows),
                   Resolve(MetadataStore(metadata_rows), document_path,
                           JoinTokens(tokens)))

\* Uploads through the service, and batch runs of the pipeline over a
\* document of article 1 that has one token or none.
NextIngest ==
    \/ \E text \in Texts : Len(text) <= 1 /\ ParseStage(1, text)
    \/ \E rows \in IngestRows, added_by \in Users \cup {NoUser}, tokens \in Texts :
          IngestDocument(rows, "a.txt", added_by, tokens)

SpecIngest == Init /\ [][NextIngest]_vars

\* ------------------------------- ingestions side by side, statement by statement
\* Two connections, each in a transaction of its own (READ COMMITTED, the
\* default): parse_directory.run over a directory of one file, or
\* ingest_document, connection p with the document and the metadata of
\* article p.  A statement sees the committed rows and the rows its own
\* transaction has written; a commit publishes them.
ViewChunks(c) == (text_chunks \ c.del) \cup c.add

ViewDocuments(c) == (documents \ c.doc_del) \cup c.doc_add

\* The unique key (pmid, chunk_index) of the rows a statement changes, and of
\* the rows a transaction holds locked.
ChunkKeys(rows) == {<<r.pmid, r.chunk_index>> : r \in rows}

\* The statement that takes connection p's view from before to after has to
\* wait: a row it writes is locked by the other transaction.
Blocked(p, before, after) ==
    \E q \in Procs \ {p} :
        /\ conns[q].pc # "closed"
        /\ ChunkKeys((before \ after) \cup (after \ before))
              \cap ChunkKeys(conns[q].add \cup conns[q].del) # {}

\* The rows of text_chunks the two documents may take between them.
PairMaxChunkId == 2 * MaxChunkId

\* The other connection has uncommitted rows.
OtherWrites(p) == \E q \in Procs \ {p} : conns[q].pc # "closed" /\ conns[q].add # {}

\* The connection's view of text_chunks becomes after.
WithChunks(c, after) == [c EXCEPT !.add = after \ text_chunks, !.del = text_chunks \ after]

WithDocuments(c, after) ==
    [c EXCEPT !.doc_add = after \ documents, !.doc_del = documents \ after]

\* psycopg.connect, SET search_path and upload_metadata_to_db; the text is
\* read, normalized and resolved to article p.
ConnBegin(p, caller, text) ==
    /\ conns[p].pc = "closed"
    /\ conns' = [conns EXCEPT ![p] =
          [IdleConn EXCEPT !.pc = "document", !.caller = caller, !.pmid = p,
                           !.text = text, !.art_add = {p}]]
    /\ UNCHANGED <<storeVars, configVars, artifactVars, last_op, procs, tx, lookup>>

\* ensure_pubmed_document_entry, as each caller calls it, and chunk_text.  The
\* TypeError of a call that does not bind leaves the with block of
\* ingest_document and the connection rolls back.
ConnDocument(p) ==
    /\ conns[p].pc = "document"
    /\ IF conns[p].caller = "ingest" /\ ~EntryCallBinds
       THEN conns' = [conns EXCEPT ![p] =
                [IdleConn EXCEPT !.met = conns[p].met, !.failed = TRUE]]
       ELSE conns' = [conns EXCEPT ![p] =
                [WithDocuments(conns[p],
                               EnsureDocumentEntry(ViewDocuments(conns[p]), conns[p].pmid))
                    EXCEPT !.pc = "select"]]
    /\ UNCHANGED <<storeVars, configVars, artifactVars, last_op, procs, tx, lookup>>

\* SELECT chunk_index FROM text_chunks WHERE pmid = %s
ConnSelect(p) ==
    /\ conns[p].pc = "select"
    /\ conns' = [conns EXCEPT ![p] =
          [@ EXCEPT !.pc = "upsert", !.pos = 1,
                    !.existing_indices =
                        {r.chunk_index : r \in RowsOf(ViewChunks(conns[p]), conns[p].pmid)}]]
    /\ UNCHANGED <<storeVars, configVars, artifactVars, last_op, procs, tx, lookup>>

\* One parameter row of executemany.
ConnUpsertRow(p) ==
    LET c == conns[p]
        chunks == ChunkText(c.pmid, c.text, chunk_size, overlap_pct)
        st == UpsertOneChunk([tc |-> ViewChunks(c), nid |-> next_chunk_id], chunks[c.pos])
    IN /\ c.pc = "upsert"
       /\ st.nid - 1 <= PairMaxChunkId
       /\ ~Blocked(p, ViewChunks(c), st.tc)
       /\ next_chunk_id' = st.nid
       /\ conns' = [conns EXCEPT ![p] =
             [WithChunks(c, st.tc)
                 EXCEPT !.pc = IF c.pos = Len(chunks) THEN "delete_stale" ELSE "upsert",
                        !.pos = IF c.pos = Len(chunks) THEN c.pos ELSE c.pos + 1,
                        !.met = c.met \/ OtherWrites(p)]]
       /\ UNCHANGED <<text_chunks, chunk_embeddings, documents, pubmed_articles, query_logs,
                      configVars, artifactVars, last_op, procs, tx, lookup>>

\* DELETE FROM text_chunks WHERE pmid = %s AND chunk_index = ANY(%s), when
\* stale_indices is not empty.
ConnDeleteStale(p) ==
    LET c == conns[p]
        chunks == ChunkText(c.pmid, c.text, chunk_size, overlap_pct)
        new_indices == {chunks[i].chunk_index : i \in DOMAIN chunks}
        after == DeleteStale(ViewChunks(c), c.pmid, c.existing_indices, new_indices)
    IN /\ c.pc = "delete_stale"
       /\ ~Blocked(p, ViewChunks(c), after)
       /\ conns' = [conns EXCEPT ![p] = [WithChunks(c, after) EXCEPT !.pc = "mark"]]
       /\ UNCHANGED <<storeVars, configVars, artifactVars, last_op, procs, tx, lookup>>

\* UPDATE documents SET processed = TRUE WHERE pmid = %s
ConnMark(p) ==
    /\ conns[p].pc = "mark"
    /\ conns' = [conns EXCEPT ![p] =
          [WithDocuments(conns[p], MarkProcessed(ViewDocuments(conns[p]), conns[p].pmid))
              EXCEPT !.pc = "commit"]]
    /\ UNCHANGED <<storeVars, configVars, artifactVars, last_op, procs, tx, lookup>>

\* conn.commit() of ingest_document, or the end of `with psycopg.connect` in
\* run: what the transaction wrote becomes the committed state, rows of
\* chunk_embeddings going with the chunks that were deleted.
ConnCommit(p) ==
    LET c == conns[p]
    IN /\ c.pc = "commit"
       /\ text_chunks' = ViewChunks(c)
       /\ chunk_embeddings' = CascadeEmbeddings(chunk_embeddings, text_chunks')
       /\ documents' = ViewDocuments(c)
       /\ pubmed_articles' = pubmed_articles \cup c.art_add
       /\ conns' = [conns EXCEPT ![p] = [IdleConn EXCEPT !.met = c.met]]
       /\ UNCHANGED <<next_chunk_id, query_logs, configVars, artifactVars, last_op, procs, tx,
                      lookup>>

NextPair ==
    \/ \E p \in Procs, caller \in {"run", "ingest"}, text \in IndexTexts :
          ConnBegin(p, caller, text)
    \/ \E p \in Procs : ConnDocument(p)
    \/ \E p \in Procs : ConnSelect(p)
    \/ \E p \in Procs : ConnUpsertRow(p)
    \/ \E p \in Procs : ConnDeleteStale(p)
    \/ \E p \in Procs : ConnMark(p)
    \/ \E p \in Procs : ConnCommit(p)

SpecPair == Init /\ [][NextPair]_vars

\* ------------------------- the embedding stage beside re-ingestions
\* embed_chunks.run up to model.encode: delete_embeddings and
\* fetch_todo_chunks read the committed tables; with nothing to embed the run
\* returns and the connection commits the delete.
EmbedFetch(p) ==
    LET purged == DeleteEmbeddings(chunk_embeddings, embed_model)
        rows_to_embed == FetchTodoChunks(text_chunks, purged, embed_model)
    IN /\ conns[p].pc = "closed"
       /\ IF rows_to_embed = <<>>
          THEN /\ chunk_embeddings' = purged
               /\ UNCHANGED conns
          ELSE /\ conns' = [conns EXCEPT ![p] =
                     [IdleConn EXCEPT !.pc = "encode", !.fetched = rows_to_embed]]
               /\ UNCHANGED chunk_embeddings
       /\ last_op' = Op("embed_fetch", 0, <<>>, FALSE, FALSE, <<>>)
       /\ UNCHANGED <<text_chunks, documents, next_chunk_id, pubmed_articles, query_logs,
                      configVars, artifactVars, procs, tx, lookup>>

\* The fingerprint written is that of the text the chunk holds at the write.
EmbedWriteCurrentHash(p) ==
    LET rows == conns[p].fetched
        ids == {rows[i].chunk_id : i \in DOMAIN rows}
        written == InsertEmbeddings(DeleteEmbeddings(chunk_embeddings, embed_model), rows,
                                    embed_model, embed_normalize)
    IN /\ conns[p].pc = "encode"
       /\ conns' = [conns EXCEPT ![p] = IdleConn]
       /\ ids \subseteq {r.chunk_id : r \in text_chunks}
       /\ chunk_embeddings' =
             {IF e.chunk_id \in ids /\ e.model_name = embed_model
              THEN [e EXCEPT !.text_hash =
                        SubSeq((CHOOSE r \in text_chunks : r.chunk_id = e.chunk_id)
                                  .content_hash, 1, ComputeHashLen)]
              ELSE e : e \in written}
       /\ last_op' = Op("embed_write", 0, <<>>, FALSE, FALSE, <<>>)
       /\ UNCHANGED <<text_chunks, documents, next_chunk_id, pubmed_articles, query_logs,
                      configVars, artifactVars, procs, tx, lookup>>

\* model.encode on the fetched texts, insert_embeddings and the commit at the
\* end of `with psycopg.connect`.  A fetched chunk that has been deleted since
\* fails the foreign key of chunk_embeddings, and the connection rolls back.
EmbedWrite(p) ==
    LET rows == conns[p].fetched
        gone == \E i \in DOMAIN rows : ~\E r \in text_chunks : r.chunk_id = rows[i].chunk_id
    IN /\ conns[p].pc = "encode"
       /\ conns' = [conns EXCEPT ![p] = IdleConn]
       /\ chunk_embeddings' =
             IF gone THEN chunk_embeddings
             ELSE InsertEmbeddings(DeleteEmbeddings(chunk_embeddings, embed_model), rows,
                                   embed_model, embed_normalize)
       /\ last_op' = Op("embed_write", 0, <<>>, FALSE, gone, <<>>)
       /\ UNCHANGED <<text_chunks, documents, next_chunk_id, pubmed_articles, query_logs,
                      configVars, artifactVars, procs, tx, lookup>>

\* Two embedding runs and the ingestions of documents that grow and shrink,
\* in any order.
NextEmbed ==
    \/ \E pmid \in Pmids, text \in IndexTexts : ParseStage(pmid, text)
    \/ \E p \in Procs : EmbedFetch(p)
    \/ \E p \in Procs : EmbedWrite(p)

SpecEmbed == Init /\ [][NextEmbed]_vars


\* ------------------------------------------------------------- properties

\* The first digits of a content hash, as many as a fingerprint holds.
HashPrefix(hash) == [i \in 1..ComputeHashLen |-> hash[i]]

HasRow(c, m) ==
    \E e \in chunk_embeddings : e.chunk_id = c.chunk_id /\ e.model_name = m

\* The chunk has an embedding row of model m whose fingerprint is not the
\* prefix of the chunk's content hash.
StaleRow(c, m) ==
    \E e \in chunk_embeddings :
        /\ e.chunk_id = c.chunk_id
        /\ e.model_name = m
        /\ e.text_hash # HashPrefix(c.content_hash)

\* The chunk's embedding of model m was computed from the text the chunk holds.
Embedded(ce, c, m) ==
    \E e \in ce :
        /\ e.chunk_id = c.chunk_id
        /\ e.model_name = m
        /\ e.embedding.text = c.chunk_text

TodoIds(tc, ce, m) ==
    LET todo == FetchTodoChunks(tc, ce, m)
    IN {todo[i].chunk_id : i \in DOMAIN todo}

\* C4: for every model, fetch_todo_chunks returns exactly the chunks that have
\* no embedding row for (chunk_id, model) or whose stored text_hash differs
\* from the fingerprint-length prefix of their content_hash; each of them once,
\* with its own pmid and text, and no other chunk.
C4_FetchTodoExact ==
    \A m \in Models :
        LET todo == FetchTodoChunks(text_chunks, chunk_embeddings, m)
            due == {c \in text_chunks : ~HasRow(c, m) \/ StaleRow(c, m)}
        IN /\ {todo[i].chunk_id : i \in DOMAIN todo} = {c.chunk_id : c \in due}
           /\ Len(todo) = Cardinality(due)
           /\ \A i \in DOMAIN todo : \E c \in due :
                 /\ c.chunk_id = todo[i].chunk_id
                 /\ c.pmid = todo[i].pmid
                 /\ c.chunk_text = todo[i].text

\* One chunk carries a stale embedding, another a fresh one, and the list for
\* the configured model is the stale one alone.
C4_Witness ==
    \E c1 \in text_chunks, c2 \in text_chunks :
        /\ StaleRow(c1, embed_model)
        /\ HasRow(c2, embed_model) /\ ~StaleRow(c2, embed_model)
        /\ TodoIds(text_chunks, chunk_embeddings, embed_model) = {c1.chunk_id}

\* The stored chunks of pmid are the windows chunk_text cuts from text.
SameInput(tc, pmid, text) ==
    LET chunks == ChunkText(pmid, text, chunk_size, overlap_pct)
    IN /\ text # <<>>
       /\ {<<r.chunk_index, r.chunk_text>> : r \in RowsOf(tc, pmid)}
            = {<<chunks[i].chunk_index, chunks[i].text>> : i \in DOMAIN chunks}

ParsedOk(pmid) ==
    last_op'.op = "parse" /\ last_op'.pmid = pmid /\ ~last_op'.failed

\* C5: when a document whose chunks are all embedded for the configured model
\* is ingested again with the same text and the same chunk_size and
\* overlap_ratio, every chunk row of that pmid stays as it was and
\* fetch_todo_chunks returns no chunk of that document.
C5_ReingestIdempotent ==
    [][\A pmid \in Pmids :
         ( /\ ParsedOk(pmid)
           /\ SameInput(text_chunks, pmid, last_op'.text)
           /\ \A c \in RowsOf(text_chunks, pmid) :
                 Embedded(chunk_embeddings, c, embed_model) )
         => /\ RowsOf(text_chunks', pmid) = RowsOf(text_chunks, pmid)
            /\ TodoIds(text_chunks', chunk_embeddings', embed_model)
                 \cap {r.chunk_id : r \in RowsOf(text_chunks', pmid)} = {}
      ]_vars

\* A document of two chunks, both embedded, has just been ingested again and
\* the store reported no row inserted, updated or removed.
C5_Witness ==
    /\ last_op.op = "parse" /\ ~last_op.failed
    /\ last_op.affected = 0 /\ last_op.removed = 0
    /\ Cardinality(RowsOf(text_chunks, last_op.pmid)) >= 2
    /\ \A c \in RowsOf(text_chunks, last_op.pmid) :
          Embedded(chunk_embeddings, c, embed_model)

\* The chunk indices of pmid whose stored text is not the window of text.
ChangedIndices(tc, pmid, text) ==
    LET chunks == ChunkText(pmid, text, chunk_size, overlap_pct)
    IN {r.chunk_index : r \in {x \in RowsOf(tc, pmid) :
            \E i \in DOMAIN chunks : /\ chunks[i].chunk_index = x.chunk_index
                                     /\ chunks[i].text # x.chunk_text}}

SameIndices(tc, pmid, text) ==
    LET chunks == ChunkText(pmid, text, chunk_size, overlap_pct)
    IN {r.chunk_index : r \in RowsOf(tc, pmid)}
         = {chunks[i].chunk_index : i \in DOMAIN chunks}

\* C6: with every chunk freshly embedded, re-ingesting a document so that
\* exactly one chunk_index gets a different text changes the content_hash of
\* that row alone (its chunk_id kept), leaves every other chunk row and every
\* embedding row as it was, and fetch_todo_chunks returns exactly that chunk.
C6_SingleChunkEdit ==
    [][\A pmid \in Pmids :
         ( /\ ParsedOk(pmid)
           /\ \A c \in text_chunks : Embedded(chunk_embeddings, c, embed_model)
           /\ SameIndices(text_chunks, pmid, last_op'.text)
           /\ Cardinality(ChangedIndices(text_chunks, pmid, last_op'.text)) = 1 )
         => LET k == CHOOSE i \in ChangedIndices(text_chunks, pmid, last_op'.text) : TRUE
                old == CHOOSE r \in RowsOf(text_chunks, pmid) : r.chunk_index = k
            IN /\ \E new \in RowsOf(text_chunks', pmid) :
                     /\ new.chunk_index = k
                     /\ new.chunk_id = old.chunk_id
                     /\ new.content_hash # old.content_hash
                     /\ text_chunks' \ {new} = text_chunks \ {old}
               /\ chunk_embeddings' = chunk_embeddings
               /\ \A c \in text_chunks' \ RowsOf(text_chunks', pmid) :
                     Embedded(chunk_embeddings', c, embed_model)
               /\ \A c \in RowsOf(text_chunks', pmid) :
                     c.chunk_index # k => Embedded(chunk_embeddings', c, embed_model)
               /\ TodoIds(text_chunks', chunk_embeddings', embed_model) = {old.chunk_id}
               /\ Len(FetchTodoChunks(text_chunks', chunk_embeddings', embed_model)) = 1
      ]_vars

\* A document of two chunks has just been ingested with one window edited: one
\* row was updated, none removed, and that chunk alone awaits embedding while
\* its stale embedding row is still there.
C6_Witness ==
    /\ last_op.op = "parse" /\ ~last_op.failed
    /\ last_op.affected = 1 /\ last_op.removed = 0
    /\ Cardinality(RowsOf(text_chunks, last_op.pmid)) >= 2
    /\ \E c \in RowsOf(text_chunks, last_op.pmid) :
          /\ StaleRow(c, embed_model)
          /\ TodoIds(text_chunks, chunk_embeddings, embed_model) = {c.chunk_id}
          /\ \A d \in text_chunks \ {c} : Embedded(chunk_embeddings, d, embed_model)

\* C2: whenever search_index runs its search after ensure_index_build has
\* returned, the chunk ids of the id array are the chunk ids that have an
\* embedding of the configured model in the store.
C2_IndexMatchesStore ==
    (last_op.op = "search" /\ ~last_op.failed)
    => {last_op.ids[i] : i \in DOMAIN last_op.ids}
         = {e.chunk_id : e \in {x \in chunk_embeddings : x.model_name = embed_model}}

\* C7: an embedding stage leaves no embedding row of a model other than the
\* configured one; and when it has purged the rows of the model configured
\* before, the ensure_index_build that comes next rebuilds, so that the
\* descriptor names the configured model and the index holds its vectors only.
C7_SwitchForcesRebuild ==
    [][ /\ last_op'.op = "embed"
          => \A e \in chunk_embeddings' : e.model_name = embed_model'
        /\ ( /\ last_op.op = "embed" /\ last_op.purged > 0
             /\ last_op'.op \in {"ensure", "search"} )
          => /\ last_op'.rebuilt /\ ~last_op'.failed
             /\ meta_file'.model_name = embed_model
             /\ \A i \in DOMAIN index_file'.vectors :
                   index_file'.vectors[i].model = embed_model
      ]_vars

RequestedMetric == IF embed_normalize THEN "cosine" ELSE "euclidean"

\* C8: ensure_index_build rebuilds if and only if one of the three artifacts
\* is missing, or the descriptor's model_name is not the requested model, or
\* the descriptor's metric is not the requested metric; in every other case
\* the three artifacts stay as they were.
C8_EnsureRebuildsIff ==
    [][ last_op'.op \in {"ensure", "search"}
        => LET due == \/ index_file.missing
                      \/ ids_file.missing
                      \/ meta_file.missing
                      \/ meta_file.model_name # embed_model
                      \/ meta_file.metric # RequestedMetric
           IN /\ last_op'.rebuilt <=> due
              /\ ~due => UNCHANGED artifactVars
      ]_vars

\* ensure_index_build has just returned without rebuilding, the three
\* artifacts in place.
C8_Witness ==
    /\ last_op.op = "ensure" /\ ~last_op.rebuilt
    /\ ~index_file.missing /\ ~ids_file.missing /\ ~meta_file.missing

\* C1: a search_index that found the artifacts up to date and loaded them while
\* a build_index was running never has in hand an index file, a chunk-id array
\* and a descriptor that come from different executions of build_index.
C1_ReaderSeesOneBuild ==
    \A p \in Procs :
        (procs[p].pc = "search" /\ procs[p].build = 0)
        => /\ procs[p].chunk_ids.build = procs[p].index.build
           /\ procs[p].meta_build = procs[p].index.build

\* C9: the artifact-writing sections of two callers of build_index never
\* overlap: no caller has begun to write while another has written some of
\* its three files and not yet all.
C9_OneBuildInFlight ==
    Cardinality({p \in Procs : procs[p].pc \in {"write_ids", "write_meta"}}) <= 1

\* C3: when the processing of a document has failed at some step, the store
\* afterwards holds no chunk row that the attempt wrote or deleted, and the
\* document is not marked processed because of the attempt.
C3_AllOrNothing ==
    (tx.pc = "closed" /\ tx.failed)
    => /\ RowsOf(text_chunks, tx.pmid) = tx.before
       /\ IsProcessed(documents, tx.pmid) = tx.was_processed

ScanWindow == SubSeq(lookup.text, 1, Min(Len(lookup.text), MAX_TEXT_WINDOW))

Candidates == {lookup.articles[i] : i \in DOMAIN lookup.articles}

\* The candidates whose lowercase DOI occurs literally in the lowercased window.
LiteralDoiHits ==
    {c \in Candidates : c.doi # <<>> /\ Contains(Lower(c.doi), Lower(ScanWindow))}

\* The candidates whose punctuation-stripped DOI occurs in the stripped window.
StrippedDoiHits ==
    {c \in Candidates :
        c.doi # <<>> /\ Contains(NormalizeForMatch(c.doi), NormalizeForMatch(ScanWindow))}

TitleHits ==
    {c \in Candidates :
        /\ NormalizeForMatch(c.title) # <<>>
        /\ Contains(NormalizeForMatch(c.title), NormalizeForMatch(ScanWindow))}

\* C10 as stated, for a text that is not empty: a literal-DOI candidate comes
\* first; otherwise a candidate whose punctuation-stripped DOI occurs in the
\* stripped window; only otherwise a title match.
C10_PriorityAsStated ==
    (lookup.pc = "resolved" /\ lookup.text # <<>>)
    => IF LiteralDoiHits # {} THEN lookup.result \in LiteralDoiHits
       ELSE IF StrippedDoiHits # {} THEN lookup.result \in StrippedDoiHits
       ELSE lookup.result \in TitleHits \cup {NoArticle}

NonEmptyStrippedDoiHits == {c \in StrippedDoiHits : NormalizeForMatch(c.doi) # <<>>}

\* C10: resolve returns a candidate whose lowercase DOI occurs literally in the
\* lowercased window when there is one, whatever else matches; otherwise a
\* candidate whose punctuation-stripped DOI is not empty and occurs in the
\* stripped window, whatever the titles; only otherwise a candidate matched by
\* title, and none when no title matches.
C10_StrictPriority ==
    lookup.pc = "resolved"
    => IF LiteralDoiHits # {} THEN lookup.result \in LiteralDoiHits
       ELSE IF NonEmptyStrippedDoiHits # {} THEN lookup.result \in NonEmptyStrippedDoiHits
       ELSE IF TitleHits # {} THEN lookup.result \in TitleHits
       ELSE lookup.result = NoArticle

\* resolve has returned a candidate by its stripped DOI, no DOI occurring
\* literally, while the title of the other candidate occurs in the text too.
C10_Witness ==
    /\ lookup.pc = "resolved"
    /\ LiteralDoiHits = {}
    /\ lookup.result \in NonEmptyStrippedDoiHits
    /\ TitleHits \ NonEmptyStrippedDoiHits # {}

\* ---- title matching (C11)
NormalizedWindow == NormalizeForMatch(ScanWindow)

\* resolve went on to the titles: the text is not empty and no DOI matched.
FellThroughToTitle ==
    /\ lookup.pc = "resolved"
    /\ lookup.text # <<>>
    /\ LiteralDoiHits = {}
    /\ NonEmptyStrippedDoiHits = {}

\* Places in the sorted title list whose title occurs in the window.
TitleHitPlaces ==
    {i \in DOMAIN lookup.title_tokens :
        /\ lookup.title_tokens[i][1] # <<>>
        /\ Contains(lookup.title_tokens[i][1], NormalizedWindow)}

\* length - 0.01 * position in exact arithmetic, in hundredths
ExactScore(i) ==
    100 * Len(lookup.title_tokens[i][1]) - Find(lookup.title_tokens[i][1], NormalizedWindow)

BestTitlePlaces ==
    {i \in TitleHitPlaces : \A j \in TitleHitPlaces : ExactScore(i) >= ExactScore(j)}

\* C11: when resolve goes on to the titles and some title occurs in the
\* window, it returns the candidate with the greatest score
\* length - 0.01 * position, and of several with that score the one that
\* comes first in the list sorted by title length, longest first.
C11_BestTitleEarliestOnTie ==
    (FellThroughToTitle /\ TitleHitPlaces # {})
    => \E i \in BestTitlePlaces :
         /\ \A j \in BestTitlePlaces : i <= j
         /\ lookup.result = lookup.title_tokens[i][2]

\* ---- resolution failure (C12)
NoStrategyMatches ==
    /\ LiteralDoiHits = {}
    /\ NonEmptyStrippedDoiHits = {}
    /\ TitleHits = {}

\* C12: resolve raises its LookupError, which names the file, exactly when
\* the text is empty or no DOI and no title of a candidate matches in the scan
\* window, whether one candidate was supplied or several; otherwise it raises
\* nothing and returns a candidate.
C12_FailsIffNoMatch ==
    lookup.pc = "resolved"
    => IF lookup.text = <<>> \/ NoStrategyMatches
       THEN /\ lookup.error.type = "LookupError"
            /\ lookup.error.document \in DocumentPaths
            /\ lookup.result = NoArticle
       ELSE /\ lookup.error = NoError
            /\ lookup.result \in Candidates

\* resolve has failed on a text that is not empty with a single candidate.
C12_Witness ==
    /\ lookup.pc = "resolved"
    /\ Len(lookup.articles) = 1
    /\ lookup.text # <<>>
    /\ lookup.error.type = "LookupError"

\* ---- chunk windows (C14)
\* max(1, floor(chunk_size * (1 - overlap_ratio))) in exact arithmetic
ExactStep(size, pct) == Max(1, (size * (100 - pct)) \div 100)

CeilDiv(n, d) == (n + d - 1) \div d

\* C14: for a text of n >= 1 tokens chunk_text returns ceil(n / step) chunks
\* with step = max(1, floor(chunk_size * (1 - overlap_ratio))), numbered from
\* 0 without gaps, chunk i holding the tokens from i * step up to but not
\* including min(i * step + chunk_size, n); for an empty text it returns
\* nothing.
C14_ChunkWindows ==
    last_op.op = "chunk_text"
    => LET n == Len(last_op.text)
           size == last_op.args[1]
           step == ExactStep(size, last_op.args[2])
           chunks == last_op.out
       IN IF n = 0 THEN chunks = <<>>
          ELSE /\ Len(chunks) = CeilDiv(n, step)
               /\ \A k \in DOMAIN chunks :
                    /\ chunks[k].chunk_index = k - 1
                    /\ chunks[k].text =
                         SubSeq(last_op.text, (k - 1) * step + 1,
                                Min((k - 1) * step + size, n))

\* ---- upload without a resolver match (C13)
\* C13: when ingest_document finds no resolver match for the upload, then
\* with exactly one metadata row it does not raise the resolution error and
\* ingests the document under that row's article (a document with tokens ends
\* with its chunks stored and its documents row processed), and with two or
\* more rows it raises the resolution error naming the file and leaves
\* articles, documents, chunks and embeddings as they were.
C13_SoleCandidateFallback ==
    [][(/\ last_op'.op = "ingest"
        /\ last_op'.args[1] # <<>>
        /\ (lookup'.text = <<>> \/ NoStrategyMatches'))
       => IF Len(last_op'.args[1]) = 1
          THEN /\ last_op'.error # "LookupError"
               /\ last_op'.text # <<>>
                  => /\ ~last_op'.failed
                     /\ RowsOf(text_chunks', last_op'.args[1][1].pmid) # {}
                     /\ IsProcessed(documents', last_op'.args[1][1].pmid)
          ELSE /\ last_op'.error = "LookupError"
               /\ lookup'.error.document = last_op'.args[2]
               /\ UNCHANGED <<pubmed_articles, documents, text_chunks, chunk_embeddings>>]_vars

\* ---- normalized text (C15)
\* C15: normalizing a normalized text returns it unchanged, and a normalized
\* text holds only ASCII characters, no whitespace but the space, no two
\* spaces in a row and no space at either end.
C15_NormalizeIdempotent ==
    last_op.op = "normalize_text"
    => LET out == last_op.out
       IN /\ NormalizeText(out) = out
          /\ \A i \in DOMAIN out :
               /\ out[i] \in {"a", " "}
               /\ out[i] = " " => (i > 1 /\ i < Len(out) /\ out[i + 1] # " ")

\* A raw text with a character outside ASCII and a tab has been normalized to
\* a text that still has a space in it.
C15_Witness ==
    /\ last_op.op = "normalize_text"
    /\ \E i \in DOMAIN last_op.args[1] : last_op.args[1][i] = "U+00E9"
    /\ \E i \in DOMAIN last_op.args[1] : last_op.args[1][i] = "\t"
    /\ \E i \in DOMAIN last_op.out : last_op.out[i] = " "

\* ---- neighbours requested (C16)
\* The query got as far as the search: ensure_index_build did not raise.
Searched == last_op.op = "search" /\ last_op.error # "RuntimeError"

\* C16: a query with k >= 1 over an index of s >= 1 vectors asks the index
\* for min(k, s) neighbours, raises no out-of-range error and returns at most
\* min(k, s) results.
C16_RequestsMinKSize ==
    (Searched /\ last_op.args[1] >= 1 /\ Len(index_file.vectors) >= 1)
    => LET k == last_op.args[1]
           s == Len(index_file.vectors)
       IN /\ last_op.requested = Min(k, s)
          /\ last_op.error = "none"
          /\ Len(last_op.out) <= Min(k, s)

\* A query with k = 3 over an index of two vectors has returned two results.
C16_Witness ==
    /\ Searched
    /\ last_op.args[1] = 3
    /\ Len(index_file.vectors) = 2
    /\ Len(last_op.out) = 2

\* ---- query log (C17)
\* C17: a query that returns at least one chunk adds exactly one row to
\* query_logs, leaves the rows before it alone and returns the query_id of
\* the new row, which no earlier row has; a query that returns no chunk adds
\* no row and returns no query_id.
C17_OneLogIffResults ==
    [][last_op'.op = "search"
       => IF last_op'.out # <<>>
          THEN /\ Len(query_logs') = Len(query_logs) + 1
               /\ SubSeq(query_logs', 1, Len(query_logs)) = query_logs
               /\ last_op'.query_id = query_logs'[Len(query_logs')].query_id
               /\ last_op'.query_id # NoQueryId
               /\ \A i \in DOMAIN query_logs : query_logs[i].query_id # last_op'.query_id
          ELSE /\ query_logs' = query_logs
               /\ last_op'.query_id = NoQueryId]_vars

\* A second query with results has been logged.
C17_Witness ==
    /\ last_op.op = "search"
    /\ last_op.out # <<>>
    /\ Len(query_logs) = 2
    /\ last_op.query_id = 2

\* A query whose index rows have all lost their chunks has returned nothing.
EmptyResultReached ==
    /\ Searched
    /\ last_op.error = "none"
    /\ last_op.requested >= 1
    /\ last_op.out = <<>>

\* ---- answer generation (C18)
\* C18: when an answer model is requested and the generator returns None,
\* the query raises nothing, returns the chunks it would return without an
\* answer model, in the same order, returns no answer, and, when there are
\* results, logs the query with a NULL response_text.
C18_NoneAnswerKeepsSearch ==
    (Searched /\ last_op.args[2] /\ last_op.args[3] = Null)
    => /\ ~last_op.failed
       /\ last_op.answer = Null
       /\ last_op.out =
            RunQuery(last_op.ids, index_file, text_chunks, documents, <<>>,
                     last_op.args[1], FALSE, Null, last_op.args[4]).ordered_results
       /\ last_op.out # <<>>
          => /\ query_logs # <<>>
             /\ query_logs[Len(query_logs)].query_id = last_op.query_id
             /\ query_logs[Len(query_logs)].response_text = Null

\* A query with an answer model and a generator returning None has returned
\* chunks and has been logged.
C18_Witness ==
    /\ Searched
    /\ last_op.args[2]
    /\ last_op.args[3] = Null
    /\ last_op.out # <<>>
    /\ query_logs # <<>>
    /\ query_logs[Len(query_logs)].response_text = Null

\* ---- rebuild on demand (C19)
\* An artifact is missing, or the descriptor names another model or metric
\* than the configured ones.
ArtifactsStale ==
    \/ index_file.missing
    \/ ids_file.missing
    \/ meta_file.missing
    \/ meta_file.model_name # embed_model
    \/ meta_file.metric # RequestedMetric

\* C19: a query issued while an artifact is missing or the descriptor does
\* not match the requested model and metric rebuilds the index and then
\* completes without raising, whatever the store holds.
C19_RebuildNeverSurfaces ==
    [][(ArtifactsStale /\ last_op'.op = "search")
       => (last_op'.rebuilt /\ ~last_op'.failed)]_vars

\* ---- failures within a batch (C20)
\* The chunk rows of the article are those of the file's text.
StoredAs(tc, file) ==
    LET chunks == ChunkText(file.pmid, file.text, chunk_size, overlap_pct)
    IN {<<r.chunk_index, r.chunk_text>> : r \in RowsOf(tc, file.pmid)}
         = {<<chunks[i].chunk_index, chunks[i].text>> : i \in DOMAIN chunks}

\* C20: after a run over a directory, for every file whose processing failed,
\* every other file of the directory was attempted, and every other file that
\* succeeds on its own (its text resolves and nothing fails while it is
\* processed) has its chunks stored and its document marked processed.
C20_FailuresIsolated ==
    (tx.pc = "closed" /\ tx.files # <<>>)
    => \A i \in DOMAIN tx.files, j \in DOMAIN tx.files :
         (i # j /\ tx.files[i].pmid \in tx.failed_docs)
         => /\ tx.files[j].pmid \in tx.attempted
            /\ (tx.files[j].text # <<>> /\ tx.files[j].pmid \notin tx.failed_docs)
               => /\ StoredAs(text_chunks, tx.files[j])
                  /\ IsProcessed(documents, tx.files[j].pmid)

\* ---- the owner of an uploaded document (C21)
\* ingest_document was called with metadata, a document that has tokens, and
\* an article for it (the resolver's, or the only row).
IngestValid(lk, op) ==
    /\ op.op = "ingest"
    /\ op.args[1] # <<>>
    /\ op.text # <<>>
    /\ (lk.error = NoError \/ Len(op.args[1]) = 1)

\* The article of that call.
IngestTarget(lk, op) ==
    IF lk.error = NoError THEN lk.result.pmid ELSE op.args[1][1].pmid

\* C21: when ingest_document is called with added_by = u for a document that
\* has tokens and an article, and the article has no row in documents, the
\* call creates the row and the row's added_by is u.
C21_AddedByStored ==
    [][(/\ IngestValid(lookup', last_op')
        /\ last_op'.args[3] # NoUser
        /\ ~\E d \in documents : d.pmid = IngestTarget(lookup', last_op'))
       => \E d \in documents' :
             /\ d.pmid = IngestTarget(lookup', last_op')
             /\ d.added_by = last_op'.args[3]]_vars

\* ---- an upload is searchable at once (C22)
\* The chunk carries an embedding of model m made from its text, with the
\* fingerprint of that text.
FreshFor(ce, c, m) ==
    \E e \in ce :
        /\ e.chunk_id = c.chunk_id
        /\ e.model_name = m
        /\ e.embedding.text = c.chunk_text
        /\ e.text_hash = HashPrefix(c.content_hash)

ChunkSet(rows) == {<<r.chunk_index, r.chunk_text, r.content_hash>> : r \in rows}

C24_IndicesContiguous ==
    [][(last_op'.op = "parse" /\ ~last_op'.failed) =>
          LET pmid == last_op'.pmid
              n == Len(ChunkText(pmid, last_op'.text, chunk_size', overlap_pct'))
          IN /\ n >= 1
             /\ {r.chunk_index : r \in RowsOf(text_chunks', pmid)} = 0 .. (n - 1)
             /\ Cardinality(RowsOf(text_chunks', pmid)) = n
             /\ \A r \in RowsOf(text_chunks, pmid) :
                   IF r.chunk_index >= n
                   THEN ~\E x \in text_chunks' : x.chunk_id = r.chunk_id
                   ELSE \E x \in RowsOf(text_chunks', pmid) :
                           x.chunk_id = r.chunk_id /\ x.chunk_index = r.chunk_index]_vars

\* A document re-ingested to a single chunk, a row of a higher index removed.
C24_Witness ==
    /\ last_op.op = "parse" /\ ~last_op.failed
    /\ last_op.removed >= 1
    /\ Cardinality(RowsOf(text_chunks, last_op.pmid)) = 1

EmptyAttempt(op) ==
    /\ op.text = <<>>
    /\ \/ op.op = "parse" /\ op.pmid = 1
       \/ op.op = "ingest" /\ Len(op.args[1]) = 1

\* C26 as stated: after an attempt on a document whose text yields no chunk,
\* the attempt has failed and the Document row of its article, if there is
\* one, does not have processed = TRUE.
C26_ZeroChunksUnprocessed ==
    EmptyAttempt(last_op) => last_op.failed /\ ~IsProcessed(documents, 1)

\* C26, amended: an attempt on a document whose text yields no chunk fails
\* for both callers, writes and deletes no row of text_chunks and of
\* chunk_embeddings, reports no chunk, and leaves the documents table, the
\* processed flag of the article's row included, as it was.
C26_ZeroChunksChangeNothing ==
    [][EmptyAttempt(last_op') =>
          /\ last_op'.failed
          /\ last_op'.affected = 0
          /\ last_op'.op = "ingest" => last_op'.out = <<0, 0>>
          /\ <<text_chunks, chunk_embeddings, documents, next_chunk_id>>'
                = <<text_chunks, chunk_embeddings, documents, next_chunk_id>>]_vars

\* An upload of a text of no token has failed, for an article whose document
\* an earlier run had stored and marked processed.
C26_Witness ==
    /\ EmptyAttempt(last_op)
    /\ last_op.op = "ingest"
    /\ last_op.failed
    /\ IsProcessed(documents, 1)
    /\ RowsOf(text_chunks, 1) # {}

\* ---- embeddings written after the text moved on (C27)
\* C27: in every state, an embedding row whose text_hash is the fingerprint
\* prefix of its chunk's content_hash holds a vector computed from the text
\* the chunk holds.
C27_FreshMeansCurrentText ==
    \A e \in chunk_embeddings : \A c \in text_chunks :
        (e.chunk_id = c.chunk_id /\ e.text_hash = HashPrefix(c.content_hash))
            => e.embedding.text = c.chunk_text

\* A run has written the embedding of a text that a re-ingestion replaced
\* after the run fetched it: the row is there and its fingerprint differs
\* from the chunk's.
C27_Witness ==
    /\ last_op.op = "embed_write" /\ ~last_op.failed
    /\ \E e \in chunk_embeddings : \E c \in text_chunks :
          /\ e.chunk_id = c.chunk_id
          /\ e.embedding.text # c.chunk_text
          /\ e.text_hash # HashPrefix(c.content_hash)

\* ---- offsets after a re-ingestion (C28)
\* C28: after an ingestion of a document has succeeded, every row stored for
\* its article has the start_offset and end_offset the chunker computed for
\* the row's chunk_index in the text just ingested.
C28_OffsetsCurrent ==
    (last_op.op = "parse" /\ ~last_op.failed) =>
        LET chunks == ChunkText(last_op.pmid, last_op.text, chunk_size, overlap_pct)
        IN \A r \in RowsOf(text_chunks, last_op.pmid) :
              \E i \in DOMAIN chunks :
                 /\ chunks[i].chunk_index = r.chunk_index
                 /\ chunks[i].start_offset = r.start_offset
                 /\ chunks[i].end_offset = r.end_offset

\* ---- the three artifacts of one build (C29)
\* C29: when a build of the index completes, the vectors of the index, the id
\* array and the descriptor's chunk_count all number the embeddings the
\* database held for the model when the build fetched them; the ids ascend,
\* row i of the index is the embedding of the chunk at row i of the id array
\* (normalized when the descriptor says so); and the descriptor's metric is
\* cosine when its normalized flag is true and euclidean when it is false.
C29_ArtifactsConsistent ==
    [][(last_op'.rebuilt /\ ~last_op'.failed) =>
          LET stored == {e \in chunk_embeddings : e.model_name = embed_model}
              n == Cardinality(stored)
              ids == ids_file'.ids
              vectors == index_file'.vectors
          IN /\ ~index_file'.missing /\ ~ids_file'.missing /\ ~meta_file'.missing
             /\ Len(vectors) = n /\ Len(ids) = n /\ meta_file'.chunk_count = n
             /\ meta_file'.model_name = embed_model
             /\ \A i \in 1..n : \A j \in 1..n : i < j => ids[i] < ids[j]
             /\ \A i \in 1..n :
                   \E e \in stored :
                      /\ e.chunk_id = ids[i]
                      /\ vectors[i] = IF meta_file'.normalized THEN NormalizeL2(e.embedding)
                                      ELSE e.embedding
             /\ meta_file'.metric = IF meta_file'.normalized THEN "cosine" ELSE "euclidean"
             /\ index_file'.kind
                   = IF meta_file'.normalized THEN "IndexFlatIP" ELSE "IndexFlatL2"]_vars

\* build_index has written an index of two vectors or more under the
\* euclidean metric.
C29_Witness ==
    /\ last_op.op = "build" /\ last_op.rebuilt /\ ~last_op.failed
    /\ Len(ids_file.ids) >= 2
    /\ meta_file.metric = "euclidean"
    /\ Len(index_file.vectors) = meta_file.chunk_count

\* ---- the query against the index it is run on (C30)
\* C30: when search_index embeds the query and searches, every vector of the
\* index it has loaded is of the model the query is embedded with, and the
\* index is an inner-product index (metric cosine in the descriptor of its
\* build) exactly when the query vector is normalized.
C30_QueryMatchesIndex ==
    [][\A p \in Procs :
         (procs[p].pc = "search" /\ procs'[p].pc = "idle" /\ ~procs[p].index.missing) =>
            /\ \A i \in DOMAIN procs[p].index.vectors :
                  procs[p].index.vectors[i].model = procs[p].model
            /\ (procs[p].index.kind = "IndexFlatIP") <=> procs[p].normalize]_vars

\* ---- results follow the rows of the index search (C31)
\* The ways of laying the results of the last query over the rows the index
\* search returned, earlier results on earlier rows.
RowPlacings ==
    {f \in [DOMAIN last_op.out -> DOMAIN last_op.indices] :
        \A i, j \in DOMAIN last_op.out : i < j => f[i] < f[j]}

\* C31: the results of search_index are in the relative order of the rows
\* the index search returned; each result's chunk_id is the entry of the id
\* array at its row's position and its score is the score returned for that
\* row.
C31_ResultsFollowRows ==
    (Searched /\ ~last_op.failed)
    => \E f \in RowPlacings :
          \A j \in DOMAIN last_op.out :
             /\ last_op.out[j].chunk_id = ArrayAt(last_op.ids, last_op.indices[f[j]])
             /\ last_op.out[j].score = last_op.scores[f[j]]

\* A query has returned a result that is not on the first row the search
\* returned, the chunk of that row being gone from the store.
C31_Witness ==
    /\ Searched
    /\ ~last_op.failed
    /\ Len(last_op.indices) = 2
    /\ Len(last_op.out) = 1
    /\ last_op.out[1].chunk_id = ArrayAt(last_op.ids, last_op.indices[2])
    /\ last_op.out[1].score = last_op.scores[2]

\* ---- the documents of a logged query (C32)
\* The query_logs row of the last query, which has returned results.
Logged ==
    /\ last_op.op = "run_query"
    /\ ~last_op.failed
    /\ last_op.query_id # NoQueryId

\* C32: the doc_ids associated with the QueryLog entry of a logged query are
\* those of the returned chunk results, each recorded once, also when
\* several returned chunks belong to one document.
C32_LoggedDocsOnce ==
    Logged
    => LET entry == query_logs[last_op.query_id]
       IN /\ {entry.doc_ids[i] : i \in DOMAIN entry.doc_ids}
               = {last_op.out[j].doc_id : j \in DOMAIN last_op.out}
          /\ \A i, j \in DOMAIN entry.doc_ids :
                entry.doc_ids[i] = entry.doc_ids[j] => i = j

\* A logged query has returned two chunks of one document.
C32_Witness ==
    /\ Logged
    /\ \E i, j \in DOMAIN last_op.out :
          /\ i # j
          /\ last_op.out[i].doc_id = last_op.out[j].doc_id
    /\ Len(query_logs[last_op.query_id].doc_ids) = 1

\* ---- citations (C33)
\* The places of retrieved_chunks where pmid appears.
PlacesOf(pmid) == {j \in DOMAIN last_op.out : last_op.out[j].pmid = pmid}

\* The first place of retrieved_chunks where pmid appears.
FirstPlace(pmid) == CHOOSE j \in PlacesOf(pmid) : \A i \in PlacesOf(pmid) : j <= i

\* C33: the citations of a query response hold exactly one entry for each
\* distinct pmid among retrieved_chunks and no other entry, in the order in
\* which the pmids first appear in retrieved_chunks.
C33_CitationsDistinctInOrder ==
    (last_op.op = "run_query" /\ ~last_op.failed)
    => LET citations == last_op.citations
       IN /\ {citations[i].pmid : i \in DOMAIN citations}
               = {last_op.out[j].pmid : j \in DOMAIN last_op.out}
          /\ \A i, j \in DOMAIN citations :
                citations[i].pmid = citations[j].pmid => i = j
          /\ \A i, j \in DOMAIN citations :
                i < j => FirstPlace(citations[i].pmid) < FirstPlace(citations[j].pmid)

\* A response has two chunks of one article and one citation, or chunks of
\* two articles, the higher pmid first, and the citations in that order.
C33_Witness ==
    /\ last_op.op = "run_query"
    /\ ~last_op.failed
    /\ Len(last_op.out) = 2
    /\ \/ /\ last_op.out[1].pmid = last_op.out[2].pmid
          /\ Len(last_op.citations) = 1
       \/ /\ last_op.out[1].pmid > last_op.out[2].pmid
          /\ Len(last_op.citations) = 2
          /\ last_op.citations[1].pmid = last_op.out[1].pmid

KeptPlaces(text) ==
    SelectSeq([i \in DOMAIN text |-> i], LAMBDA i : IsLowerAlnum(LowerChar(text[i])))

\* The occurrences of a lowercase DOI in the text, as <<first, last>> places.
LiteralOccurrences(key, text) ==
    {<<i + 1, i + Len(key)>> :
        i \in {k \in 0..(Len(text) - Len(key)) :
                  SubSeq(Lower(text), k + 1, k + Len(key)) = key}}

\* The occurrences of a normalized DOI or title in the text, from the first
\* character that makes it to the last.
TokenOccurrences(key, text) ==
    LET normalized == NormalizeForMatch(text)
        kept == KeptPlaces(text)
    IN {<<kept[i + 1], kept[i + Len(key)]>> :
           i \in {k \in 0..(Len(normalized) - Len(key)) :
                     SubSeq(normalized, k + 1, k + Len(key)) = key}}

\* Every occurrence starts at or after character MAX_TEXT_WINDOW or extends
\* beyond it.
AllOutsideWindow(occurrences) ==
    \A o \in occurrences : o[1] > MAX_TEXT_WINDOW \/ o[2] > MAX_TEXT_WINDOW

\* Neither the DOI nor the title of the article occurs within the window.
OutOfWindow(article, text) ==
    /\ article.doi # <<>>
       => /\ AllOutsideWindow(LiteralOccurrences(Lower(Strip(article.doi)), text))
          /\ NormalizeForMatch(article.doi) # <<>>
             => AllOutsideWindow(TokenOccurrences(NormalizeForMatch(article.doi), text))
    /\ NormalizeForMatch(article.title) # <<>>
       => AllOutsideWindow(TokenOccurrences(NormalizeForMatch(article.title), text))

\* C35: an article whose DOI and title occur in the text only from character
\* MAX_TEXT_WINDOW on, or across it, is not what resolve returns, and resolve
\* gives what it gives for the first MAX_TEXT_WINDOW characters of the text.
C35_WindowBounded ==
    lookup.pc = "resolved"
    => /\ \A i \in DOMAIN lookup.articles :
             OutOfWindow(lookup.articles[i], lookup.text)
             => lookup.result # lookup.articles[i]
       /\ LET cut == Resolve(lookup, lookup.error.document,
                             SubSeq(lookup.text, 1, Min(Len(lookup.text), MAX_TEXT_WINDOW)))
          IN lookup.result = cut.result /\ lookup.error = cut.error

\* resolve has failed on a text longer than the window that holds the title
\* or the DOI of an article of the store, across the end of the window or
\* after it.
C35_Witness ==
    /\ lookup.pc = "resolved"
    /\ Len(lookup.text) > MAX_TEXT_WINDOW
    /\ lookup.result = NoArticle
    /\ \E i \in DOMAIN lookup.articles :
          /\ OutOfWindow(lookup.articles[i], lookup.text)
          /\ \/ TokenOccurrences(NormalizeForMatch(lookup.articles[i].title),
                                 lookup.text) # {}
             \/ /\ lookup.articles[i].doi # <<>>
                /\ LiteralOccurrences(lookup.articles[i].doi, lookup.text) # {}

\* ---- chunk offsets in the normalized text (C36)
\* text[start_offset : end_offset] of a string
Slice(str, start_offset, end_offset) == SubSeq(str, start_offset + 1, end_offset)

\* C36: for a normalized text, every chunk chunk_text returns has
\* 0 <= start_offset < end_offset <= len(text) and the text
\* text[start_offset : end_offset], and start_offset grows strictly with
\* chunk_index.
C36_OffsetsSliceText ==
    last_op.op = "chunk_text"
    => LET str == JoinTokens(last_op.text)
           chunks == last_op.out
       IN /\ \A k \in DOMAIN chunks :
                /\ 0 <= chunks[k].start_offset
                /\ chunks[k].start_offset < chunks[k].end_offset
                /\ chunks[k].end_offset <= Len(str)
                /\ Slice(str, chunks[k].start_offset, chunks[k].end_offset)
                      = JoinTokens(chunks[k].text)
          /\ \A j, k \in DOMAIN chunks :
                chunks[j].chunk_index < chunks[k].chunk_index
                => chunks[j].start_offset < chunks[k].start_offset

\* chunk_text has returned several chunks, one of them of three tokens, the
\* last one ending with the text.
C36_Witness ==
    /\ last_op.op = "chunk_text"
    /\ Len(last_op.out) >= 2
    /\ \E k \in DOMAIN last_op.out : Len(last_op.out[k].text) = 3
    /\ last_op.out[Len(last_op.out)].end_offset = Len(JoinTokens(last_op.text))

\* ---- chunks cover the tokens (C39)
\* The token of the text that starts at the offset, and the one that ends
\* there.
TokenStartingAt(text, offset) == CHOOSE i \in DOMAIN text : TokenStart(text, i) = offset

TokenEndingAt(text, offset) == CHOOSE i \in DOMAIN text : TokenEnd(text, i) = offset

\* C39: for chunk_size >= 1 and 0 <= overlap_ratio < 1 every token of the
\* text is in at least one chunk chunk_text returns, consecutive chunks start
\* step tokens apart (step as chunk_text computes it), and no chunk holds more
\* than chunk_size tokens.
C39_ChunksCoverTokens ==
    last_op.op = "chunk_text"
    => LET text == last_op.text
           size == last_op.args[1]
           step == Step(size, last_op.args[2])
           chunks == last_op.out
           first(k) == TokenStartingAt(text, chunks[k].start_offset)
           last(k) == TokenEndingAt(text, chunks[k].end_offset)
       IN /\ \A i \in DOMAIN text :
                \E k \in DOMAIN chunks : first(k) <= i /\ i <= last(k)
          /\ \A k \in DOMAIN chunks :
                k < Len(chunks) => first(k + 1) = first(k) + step
          /\ \A k \in DOMAIN chunks :
                /\ Len(chunks[k].text) <= size
                /\ last(k) - first(k) + 1 <= size

\* A text longer than chunk_size has been cut without overlap into chunks
\* that follow one another.
C39_Witness ==
    /\ last_op.op = "chunk_text"
    /\ Len(last_op.text) > last_op.args[1]
    /\ Len(last_op.out) >= 2
    /\ last_op.args[2] = 0
    /\ last_op.out[2].start_offset > last_op.out[1].end_offset

\* ---- results exist in the store (C37)
\* The chunk id resolves: text_chunks has the row and documents the row of its
\* article.
Resolves(chunk_id) ==
    \E r \in text_chunks : r.chunk_id = chunk_id /\ \E d \in documents : d.pmid = r.pmid

\* C37: every result of search_index is a chunk the store holds at query
\* time, with its text and article and the doc_id of its Document; the rows
\* of the index whose chunk id no longer resolves are left out, the other
\* rows each give a result.
C37_ResultsResolve ==
    (Searched /\ ~last_op.failed)
    => /\ \A j \in DOMAIN last_op.out :
             \E r \in text_chunks :
                /\ r.chunk_id = last_op.out[j].chunk_id
                /\ r.chunk_text = last_op.out[j].chunk_text
                /\ r.pmid = last_op.out[j].pmid
                /\ \E d \in documents :
                      d.pmid = r.pmid /\ d.doc_id = last_op.out[j].doc_id
       /\ Len(last_op.out) =
             Cardinality({j \in DOMAIN last_op.indices :
                             Resolves(ArrayAt(last_op.ids, last_op.indices[j]))})

\* A query over an index that still has the row of a deleted document has
\* returned fewer results than it asked the index for.
C37_Witness ==
    /\ Searched
    /\ ~last_op.failed
    /\ ~last_op.rebuilt
    /\ Len(last_op.out) < last_op.requested
    /\ \E j \in DOMAIN last_op.indices :
          ~Resolves(ArrayAt(last_op.ids, last_op.indices[j]))

\* ---- the embedding stage run to completion (C38)
\* The embedding rows of a chunk under a model.
EmbeddingsOf(chunk_id, model_name) ==
    {e \in chunk_embeddings : e.chunk_id = chunk_id /\ e.model_name = model_name}

\* C38: when embed_chunks.run has completed for the configured model with no
\* other writer, fetch_todo_chunks for the model is empty, every stored chunk
\* has exactly one embedding row of the model, there is no embedding row of
\* another model, and the model's embedding count is the chunk count.
C38_EmbedRunCompletes ==
    last_op.op = "embed"
    => /\ FetchTodoChunks(text_chunks, chunk_embeddings, embed_model) = <<>>
       /\ \A c \in text_chunks : Cardinality(EmbeddingsOf(c.chunk_id, embed_model)) = 1
       /\ \A e \in chunk_embeddings : e.model_name = embed_model
       /\ Cardinality({e \in chunk_embeddings : e.model_name = embed_model})
             = Cardinality(text_chunks)

\* A run has removed the rows of the model configured before and has left
\* every chunk embedded under the current one.
C38_Witness ==
    /\ last_op.op = "embed"
    /\ last_op.purged >= 1
    /\ Cardinality(text_chunks) >= 2
    /\ \A c \in text_chunks : EmbeddingsOf(c.chunk_id, embed_model) # {}

====
